---- MODULE Spec2Model ----
(***************************************************************************)
(* State-machine model of the ingl-DAO validator marketplace program:      *)
(* List, Delist, Buy, WithdrawRewards, RequestMediation, Mediate and       *)
(* ValidateSecondaryItemsTransfers over the Listing record (Storage), the  *)
(* lamport balances, the vote accounts' withdraw authority and the         *)
(* program's upgrade authority.                                            *)
(*                                                                         *)
(* Option<T> is modelled as a sequence of length 0 (None) or 1 (Some).     *)
(* Every instruction is atomic: an Err (or a panic) leaves the accounts    *)
(* as they were.  A cross-program invocation (system transfer and          *)
(* create_account, vote authorize and withdraw, set_upgrade_authority) is  *)
(* modelled by what the invoked program does to the accounts: a transfer   *)
(* succeeds when the source holds the amount, an authorize when the        *)
(* authority named is the current one.                                     *)
(***************************************************************************)
EXTENDS Integers, Sequences, FiniteSets, TLC

VARIABLES
    storage,            \* Option<Storage>: the parsed record at the storage PDA
    storage_lamports,   \* lamports of the storage PDA
    lamports,           \* lamports of the system accounts (users, team, escrow PDA)
    vote_withdrawer,    \* VoteState.authorized_withdrawer of each vote account
    vote_lamports,      \* lamports of each vote account
    upgrade_authority,  \* upgrade authority in the program-data account
    now,                \* Clock.unix_timestamp
    last,               \* the last instruction: name, inputs, result
    pre,                \* the accounts as they were before the last instruction
    fee                 \* inputs and outputs of the fee computation (SpecFee)

vars == <<storage, storage_lamports, lamports, vote_withdrawer, vote_lamports,
          upgrade_authority, now, last, pre, fee>>

----------------------------------------------------------------------------
(* Bounds of the model *)

MaxTime == 1

MaxFeePrice == 12000

\* Width of the words that stand for the program's u64: amounts are scaled so
\* that 2^U64Bits plays the part of 2^64 and every intermediate value stays
\* inside the model checker's integers.
U64Bits == 16

----------------------------------------------------------------------------
(* Program constants *)

ESCROWED_BASIS_POINTS == 2000

TEAM_FEES_BASIS_POINTS == 10

BASIS_POINTS == 10000

THIRTY_DAYS == 30 * 86400

U8_MOD == 256

\* u64::MAX + 1, in the scaled words.
U64_MOD == 2 ^ U64Bits

\* TEAM_ADDRESS and the single entry of MEDIATORS are the same key.
TEAM_ADDRESS == "T"

MEDIATORS == {"T"}

\* The program-derived addresses.
PDA_AUTHORIZED_WITHDRAWER == "pdaW"

PDA_UPGRADE_AUTHORITY == "pdaU"

ESCROW_ACCOUNT == "escrow"

----------------------------------------------------------------------------
(* Input domains *)

\* Keys that can sign a transaction.
Identities == {"S", "B1", "B2", "T"}

\* System accounts that hold lamports.
Accounts == Identities \cup {ESCROW_ACCOUNT}

VoteAccounts == {"V1", "V2"}

None == << >>

Some(x) == <<x>>

IsSome(o) == Len(o) = 1

IsNone(o) == Len(o) = 0

Unwrap(o) == o[1]

\* Balances in Init: a funded seller and buyer, a buyer who cannot pay.
RichLamports == 12000

PoorLamports == 3

\* Lamports of a vote account in Init, and the rent-exempt reserve of a vote account.
VoteInitLamports == 12

\* Lamports per byte that the Rent sysvar asks for.
RentPerByte == 1

\* What a seller may offer: the price and the costs of the secondary items.
Offers == {[cost |-> 1005, items |-> << >>],
           [cost |-> 5, items |-> <<50>>],
           [cost |-> 5, items |-> <<10, 3>>],
           [cost |-> 1005, items |-> <<7>>]}

\* {buyer, seller, team} as three u8.
ShareTriples == {<<40, 40, 20>>, <<100, 0, 0>>, <<0, 0, 100>>, <<40, 40, 19>>,
                 <<40, 40, 21>>, <<200, 100, 56>>, <<1, 100, 255>>}

----------------------------------------------------------------------------
(* The accounts an instruction reads and writes *)

Cur == [storage |-> storage, storage_lamports |-> storage_lamports,
        lamports |-> lamports, vote_withdrawer |-> vote_withdrawer,
        vote_lamports |-> vote_lamports, upgrade_authority |-> upgrade_authority]

Ok(a) == [err |-> "Ok", st |-> a]

\* An Err return (or a panic) aborts the transaction: `a` is the state at entry.
Err(e, a) == [err |-> e, st |-> a]

\* clock_data.unix_timestamp as u32; the model's clock stays within 0..2^31-1,
\* where the cast keeps the value.
AsU32(t) == t

\* system_instruction::transfer: fails when the source holds less than amount.
SystemTransfer(l, from, to, amount) ==
    IF l[from] < amount
    THEN [ok |-> FALSE, l |-> l]
    ELSE [ok |-> TRUE,
          l |-> [[l EXCEPT ![from] = @ - amount] EXCEPT ![to] = @ + amount]]

\* `x + y` and `x * y` on u64: the value a build without overflow checks
\* computes (it wraps), and whether a build with overflow checks panics.
AddU64(x, y) == [v |-> (x + y) % U64_MOD, overflow |-> x + y >= U64_MOD]

MulU64(x, y) == [v |-> (x * y) % U64_MOD, overflow |-> x * y >= U64_MOD]

RECURSIVE SumU64(_)
\* secondary_items.iter().map(|item| item.cost).sum::<u64>(): a fold of `+`
\* that inherits the overflow checks of the build.
SumU64(items) ==
    IF items = << >> THEN [v |-> 0, overflow |-> FALSE]
    ELSE LET rest == SumU64(Tail(items))
             s == AddU64(rest.v, Head(items).cost)
         IN  [v |-> s.v, overflow |-> rest.overflow \/ s.overflow]

\* The sum as the instruction goes on with it.
SumCosts(items) == SumU64(items).v

\* SecondaryItem::to_stored
ToStored(cost) == [cost |-> cost, date_validated |-> None]

\* Storage::get_space, with the three strings of one byte each.
StorageSpace(items) ==
    4 + 32 + 32 + 8 + 4 + 1 + (32 + 4 + 5) + 5 + 1 + (8 + 8 + 8) + 4
      + Len(items) * (8 + 1 + 4 + 1 + 4 + 5) + 4 + 1 + 4 + 1 + 1 + 4 + 1

\* rent_data.minimum_balance(space)
RentMinimumBalance(space) == space * RentPerByte

----------------------------------------------------------------------------
(* Buy *)

\* The escrow carve-out in basis points: only when secondary items exist.
EscrowBp(n_items) == IF n_items > 0 THEN ESCROWED_BASIS_POINTS ELSE 0

\* A variant that forgets to take the escrow share off the seller's cut.
ToOwnerWithoutEscrowShare(cost, n_items) ==
    (cost * (BASIS_POINTS - TEAM_FEES_BASIS_POINTS)) \div BASIS_POINTS

ToOwner(cost, n_items) ==
    (cost * (BASIS_POINTS - EscrowBp(n_items) - TEAM_FEES_BASIS_POINTS)) \div BASIS_POINTS

EscrowCut(cost, n_items) == (cost * EscrowBp(n_items)) \div BASIS_POINTS

\* A variant that escrows the item costs once instead of twice.
ToEscrowSingleItemCosts(cost, items) ==
    AddU64(SumCosts(items), EscrowCut(cost, Len(items))).v

\* `secondary_item_cost * 2 + <escrowed share of the price> as u64`
ToEscrow(cost, items) ==
    AddU64(MulU64(SumCosts(items), 2).v, EscrowCut(cost, Len(items))).v

\* One of the sum, the doubling and the addition behind to_escrow leaves u64.
ToEscrowOverflows(cost, items) ==
    \/ SumU64(items).overflow
    \/ MulU64(SumCosts(items), 2).overflow
    \/ AddU64(MulU64(SumCosts(items), 2).v, EscrowCut(cost, Len(items))).overflow

ToTeam(cost) == (cost * TEAM_FEES_BASIS_POINTS) \div BASIS_POINTS

\* The closure do_transfers of Buy.
BuyTransfers(l, payer, owner, to_owner, to_escrow, to_team) ==
    LET t1 == SystemTransfer(l, payer, owner, to_owner)
        t2 == IF to_escrow > 0
              THEN SystemTransfer(t1.l, payer, ESCROW_ACCOUNT, to_escrow)
              ELSE t1
        t3 == IF to_team > 0
              THEN SystemTransfer(t2.l, payer, TEAM_ADDRESS, to_team)
              ELSE t2
    IN  [ok |-> t1.ok /\ t2.ok /\ t3.ok, l |-> t3.l]

\* A variant that never finalizes at purchase time.
NewPurchaseNeverFinalized(payer, items, t) ==
    [buyer |-> payer, date |-> AsU32(t), date_finalized |-> None]

\* Purchase written by Buy.
NewPurchase(payer, items, t) ==
    [buyer |-> payer, date |-> AsU32(t),
     date_finalized |-> IF items = << >> THEN Some(AsU32(t)) ELSE None]

\* A variant without the check that the listing is still unsold.
VerifyTransferCostWithoutPurchaseCheck(a, t, checks, payer, registered_aw) ==
    IF IsNone(a.storage) THEN Err("InvalidAccountData", a)
    ELSE LET s == Unwrap(a.storage) IN
    IF registered_aw # s.authorized_withdrawer THEN Err("AddressMismatch", a)
    ELSE IF checks /\ ToEscrowOverflows(s.authorized_withdrawer_cost, s.secondary_items)
    THEN Err("Panic", a)
    ELSE LET tr == BuyTransfers(a.lamports, payer, registered_aw,
                                ToOwner(s.authorized_withdrawer_cost, Len(s.secondary_items)),
                                ToEscrow(s.authorized_withdrawer_cost, s.secondary_items),
                                ToTeam(s.authorized_withdrawer_cost))
         IN IF ~tr.ok THEN Err("InsufficientFunds", a)
            ELSE Ok([a EXCEPT !.lamports = tr.l,
                              !.storage = Some([s EXCEPT !.purchase =
                                  Some(NewPurchase(payer, s.secondary_items, t))])])

\* `checks`: the build traps integer overflow (overflow-checks) instead of
\* wrapping.
VerifyTransferCostAndEditStorage(a, t, checks, payer, registered_aw) ==
    IF IsNone(a.storage) THEN Err("InvalidAccountData", a)
    ELSE LET s == Unwrap(a.storage) IN
    IF registered_aw # s.authorized_withdrawer THEN Err("AddressMismatch", a)
    ELSE IF IsSome(s.purchase) THEN Err("TooLate", a)
    ELSE IF checks /\ ToEscrowOverflows(s.authorized_withdrawer_cost, s.secondary_items)
    THEN Err("Panic", a)
    ELSE LET tr == BuyTransfers(a.lamports, payer, registered_aw,
                                ToOwner(s.authorized_withdrawer_cost, Len(s.secondary_items)),
                                ToEscrow(s.authorized_withdrawer_cost, s.secondary_items),
                                ToTeam(s.authorized_withdrawer_cost))
         IN IF ~tr.ok THEN Err("InsufficientFunds", a)
            ELSE Ok([a EXCEPT !.lamports = tr.l,
                              !.storage = Some([s EXCEPT !.purchase =
                                  Some(NewPurchase(payer, s.secondary_items, t))])])

\* vote authorize(vote, pda, new, Withdrawer) signed with the pda's seeds: the
\* vote program accepts it only from the current withdraw authority.
BuyChangeAuthorizedWithdrawer(a, vote, new_authorized_withdrawer) ==
    IF a.vote_withdrawer[vote] # PDA_AUTHORIZED_WITHDRAWER
    THEN Err("MissingRequiredSignature", a)
    ELSE Ok([a EXCEPT !.vote_withdrawer[vote] = new_authorized_withdrawer])

BuyValidator(a, t, checks, payer, registered_aw, vote) ==
    LET r1 == VerifyTransferCostAndEditStorage(a, t, checks, payer, registered_aw) IN
    IF r1.err # "Ok" THEN Err(r1.err, a)
    ELSE LET r2 == BuyChangeAuthorizedWithdrawer(r1.st, vote, payer) IN
         IF r2.err # "Ok" THEN Err(r2.err, a) ELSE r2

----------------------------------------------------------------------------
(* List *)

\* A variant that verifies the upgrade authority and leaves it where it is.
VerifyProgramAuthorityOnly(a, current_authority, signed) ==
    IF ~signed THEN Err("MissingRequiredSignature", a)
    ELSE IF current_authority # a.upgrade_authority THEN Err("AddressMismatch", a)
    ELSE Ok(a)

\* verify_and_change_program_authority: the signer must be the upgrade
\* authority recorded in the program-data account; it hands it to the pda.
VerifyAndChangeProgramAuthority(a, current_authority, signed) ==
    IF ~signed THEN Err("MissingRequiredSignature", a)
    ELSE IF current_authority # a.upgrade_authority THEN Err("AddressMismatch", a)
    ELSE Ok([a EXCEPT !.upgrade_authority = PDA_UPGRADE_AUTHORITY])

\* A variant that verifies the seller and leaves the withdraw authority with him.
VerifyAuthorizedWithdrawerOnly(a, vote, current_aw, signed) ==
    IF ~signed THEN Err("MissingRequiredSignature", a)
    ELSE IF current_aw # a.vote_withdrawer[vote] THEN Err("AddressMismatch", a)
    ELSE Ok(a)

\* verify_and_change_authorized_withdrawer: the signer must be the vote
\* account's withdraw authority; it hands it to the pda.
VerifyAndChangeAuthorizedWithdrawer(a, vote, current_aw, signed) ==
    IF ~signed THEN Err("MissingRequiredSignature", a)
    ELSE IF current_aw # a.vote_withdrawer[vote] THEN Err("AddressMismatch", a)
    ELSE Ok([a EXCEPT !.vote_withdrawer[vote] = PDA_AUTHORIZED_WITHDRAWER])

NewStorage(payer, vote, cost, item_costs, mediatable_date) ==
    [authorized_withdrawer |-> payer,
     vote_account |-> vote,
     authorized_withdrawer_cost |-> cost,
     mediatable_date |-> mediatable_date,
     purchase |-> None,
     request_mediation_date |-> None,
     mediation_date |-> None,
     mediation_shares |-> None,
     secondary_items |-> [i \in 1..Len(item_costs) |-> ToStored(item_costs[i])]]

\* create_storage_and_store_data: system create_account fails on an account
\* that is in use and on a payer that cannot fund it.
\* A variant that writes the new record over an existing one.
CreateStorageOverExisting(a, payer, vote, cost, item_costs, mediatable_date) ==
    LET rent == RentMinimumBalance(StorageSpace(item_costs)) IN
    IF a.lamports[payer] < rent THEN Err("InsufficientFunds", a)
    ELSE Ok([a EXCEPT !.lamports[payer] = @ - rent,
                      !.storage_lamports = rent,
                      !.storage = Some(NewStorage(payer, vote, cost, item_costs,
                                                  mediatable_date))])

CreateStorageAndStoreData(a, payer, vote, cost, item_costs, mediatable_date) ==
    LET rent == RentMinimumBalance(StorageSpace(item_costs)) IN
    IF IsSome(a.storage) \/ a.storage_lamports > 0 THEN Err("AccountAlreadyInUse", a)
    ELSE IF a.lamports[payer] < rent THEN Err("InsufficientFunds", a)
    ELSE Ok([a EXCEPT !.lamports[payer] = @ - rent,
                      !.storage_lamports = rent,
                      !.storage = Some(NewStorage(payer, vote, cost, item_costs,
                                                  mediatable_date))])

\* A variant that refuses a mediatable date of exactly thirty days from now.
ListValidatorBelowThirtyDays(a, t, seller, current_ua, signed, vote, cost, item_costs, mediatable_date, name_empty, registry_ok) ==
    IF mediatable_date >= AsU32(t + THIRTY_DAYS) THEN Err("TooLate", a)
    ELSE IF name_empty THEN Err("InvalidData", a)
    ELSE LET r1 == VerifyAndChangeProgramAuthority(a, current_ua, signed) IN
    IF r1.err # "Ok" THEN Err(r1.err, a)
    ELSE LET r2 == VerifyAndChangeAuthorizedWithdrawer(r1.st, vote, seller, signed) IN
    IF r2.err # "Ok" THEN Err(r2.err, a)
    ELSE LET r3 == CreateStorageAndStoreData(r2.st, seller, vote, cost, item_costs,
                                             mediatable_date) IN
    IF r3.err # "Ok" THEN Err(r3.err, a)
    ELSE IF ~registry_ok THEN Err("RegistryError", a)
    ELSE r3

ListValidator(a, t, seller, current_ua, signed, vote, cost, item_costs, mediatable_date, name_empty, registry_ok) ==
    IF mediatable_date > AsU32(t + THIRTY_DAYS) THEN Err("TooLate", a)
    ELSE IF name_empty THEN Err("InvalidData", a)
    ELSE LET r1 == VerifyAndChangeProgramAuthority(a, current_ua, signed) IN
    IF r1.err # "Ok" THEN Err(r1.err, a)
    ELSE LET r2 == VerifyAndChangeAuthorizedWithdrawer(r1.st, vote, seller, signed) IN
    IF r2.err # "Ok" THEN Err(r2.err, a)
    ELSE LET r3 == CreateStorageAndStoreData(r2.st, seller, vote, cost, item_costs,
                                             mediatable_date) IN
    IF r3.err # "Ok" THEN Err(r3.err, a)
    ELSE IF ~registry_ok THEN Err("RegistryError", a)
    ELSE r3

----------------------------------------------------------------------------
(* Delist *)

\* change_program_authority: set_upgrade_authority signed with the pda's seeds.
ChangeProgramAuthority(a, authorized_withdrawer) ==
    IF a.upgrade_authority # PDA_UPGRADE_AUTHORITY THEN Err("IncorrectAuthority", a)
    ELSE Ok([a EXCEPT !.upgrade_authority = authorized_withdrawer])

\* change_authorized_withdrawer of delist.rs: vote authorize signed with the pda's seeds.
DelistChangeAuthorizedWithdrawer(a, vote, authorized_withdrawer) ==
    IF a.vote_withdrawer[vote] # PDA_AUTHORIZED_WITHDRAWER
    THEN Err("MissingRequiredSignature", a)
    ELSE Ok([a EXCEPT !.vote_withdrawer[vote] = authorized_withdrawer])

\* A variant that looks at the first item only.
FirstItemUnvalidated(items) == items # << >> /\ IsNone(items[1].date_validated)

AnyItemUnvalidated(items) == \E i \in 1..Len(items) : IsNone(items[i].date_validated)

\* A variant that credits the payer without the double borrow and closes the
\* record.
VerifyAndCloseStorageClosing(a, payer, signed, vote) ==
    IF ~signed THEN Err("MissingRequiredSignature", a)
    ELSE IF IsNone(a.storage) THEN Err("InvalidAccountData", a)
    ELSE LET s == Unwrap(a.storage) IN
    IF payer # s.authorized_withdrawer THEN Err("AddressMismatch", a)
    ELSE IF vote # s.vote_account THEN Err("AddressMismatch", a)
    ELSE IF IsSome(s.purchase) /\ AnyItemUnvalidated(s.secondary_items)
         THEN Err("TooEarly", a)
    ELSE IF a.lamports[payer] + a.storage_lamports >= U64_MOD
         THEN Err("OptionUnwrapError", a)
    ELSE Ok([a EXCEPT !.lamports[payer] = @ + a.storage_lamports,
                      !.storage_lamports = 0,
                      !.storage = None])

\* A variant that closes the record for any signer.
VerifyAndCloseStorageByAnyone(a, payer, signed, vote) ==
    IF ~signed THEN Err("MissingRequiredSignature", a)
    ELSE IF IsNone(a.storage) THEN Err("InvalidAccountData", a)
    ELSE LET s == Unwrap(a.storage) IN
    IF vote # s.vote_account THEN Err("AddressMismatch", a)
    ELSE IF IsSome(s.purchase) /\ AnyItemUnvalidated(s.secondary_items)
         THEN Err("TooEarly", a)
    ELSE IF a.lamports[payer] + a.storage_lamports >= U64_MOD
         THEN Err("OptionUnwrapError", a)
    ELSE Ok([a EXCEPT !.lamports[payer] = @ + a.storage_lamports,
                      !.storage_lamports = 0,
                      !.storage = None])

\* Once the checks have passed, the record's lamports are set to 0 and
\*   **payer_account.lamports.borrow_mut() =
\*       payer_account.lamports.borrow().checked_add(storage_account_lamports)...
\* is executed. The right-hand side is evaluated first: when the payer's
\* balance plus the record's leaves u64, checked_add is None and error_log's
\* `?` returns OptionUnwrapError before borrow_mut is reached. Otherwise the
\* Ref of the right-hand side lives to the end of the statement, so the
\* borrow_mut of the same RefCell panics ("already borrowed") in every build.
\* Either way the instruction fails and the transaction is rolled back. No
\* path through this function returns Ok.
VerifyAndCloseStorage(a, payer, signed, vote) ==
    IF ~signed THEN Err("MissingRequiredSignature", a)
    ELSE IF IsNone(a.storage) THEN Err("InvalidAccountData", a)
    ELSE LET s == Unwrap(a.storage) IN
    IF payer # s.authorized_withdrawer THEN Err("AddressMismatch", a)
    ELSE IF vote # s.vote_account THEN Err("AddressMismatch", a)
    ELSE IF IsSome(s.purchase) /\ AnyItemUnvalidated(s.secondary_items)
         THEN Err("TooEarly", a)
    ELSE IF a.lamports[payer] + a.storage_lamports >= U64_MOD
         THEN Err("OptionUnwrapError", a)
    ELSE Err("Panic", a)

\* The upgrade authority goes to the account passed as
\* current_upgrade_authority_info, the vote account's withdraw authority to
\* the one passed as authorized_withdrawer_info; only the latter is compared
\* with the record (in verify_and_close_storage). Both changes are undone
\* with the transaction when verify_and_close_storage fails, which it always
\* does.
DelistValidator(a, seller, current_upgrade_authority, signed, vote) ==
    LET r1 == ChangeProgramAuthority(a, current_upgrade_authority) IN
    IF r1.err # "Ok" THEN Err(r1.err, a)
    ELSE LET r2 == DelistChangeAuthorizedWithdrawer(r1.st, vote, seller) IN
    IF r2.err # "Ok" THEN Err(r2.err, a)
    ELSE LET r3 == VerifyAndCloseStorage(r2.st, seller, signed, vote) IN
    IF r3.err # "Ok" THEN Err(r3.err, a) ELSE r3

----------------------------------------------------------------------------
(* RequestMediation *)

\* A variant that opens the request only after mediatable_date has passed.
RequestMediationAfterMediatableDate(a, t, payer, signed) ==
    IF ~signed THEN Err("MissingRequiredSignature", a)
    ELSE IF IsNone(a.storage) THEN Err("InvalidAccountData", a)
    ELSE LET s == Unwrap(a.storage) IN
    IF IsNone(s.purchase) THEN Err("OptionUnwrapError", a)
    ELSE IF payer # s.authorized_withdrawer /\ payer # Unwrap(s.purchase).buyer
         THEN Err("NotAuthorized", a)
    ELSE IF AsU32(t) <= s.mediatable_date THEN Err("TooEarly", a)
    ELSE IF IsSome(s.request_mediation_date) THEN Err("TooLate", a)
    ELSE Ok([a EXCEPT !.storage = Some([s EXCEPT !.request_mediation_date =
                                                      Some(AsU32(t))])])

\* A variant that lets a new request replace the recorded one.
RequestMediationAnew(a, t, payer, signed) ==
    IF ~signed THEN Err("MissingRequiredSignature", a)
    ELSE IF IsNone(a.storage) THEN Err("InvalidAccountData", a)
    ELSE LET s == Unwrap(a.storage) IN
    IF IsNone(s.purchase) THEN Err("OptionUnwrapError", a)
    ELSE IF payer # s.authorized_withdrawer /\ payer # Unwrap(s.purchase).buyer
         THEN Err("NotAuthorized", a)
    ELSE IF AsU32(t) < s.mediatable_date THEN Err("TooEarly", a)
    ELSE Ok([a EXCEPT !.storage = Some([s EXCEPT !.request_mediation_date =
                                                      Some(AsU32(t))])])

\* A variant that takes the request of any signer.
RequestMediationByAnyone(a, t, payer, signed) ==
    IF ~signed THEN Err("MissingRequiredSignature", a)
    ELSE IF IsNone(a.storage) THEN Err("InvalidAccountData", a)
    ELSE LET s == Unwrap(a.storage) IN
    IF IsNone(s.purchase) THEN Err("OptionUnwrapError", a)
    ELSE IF AsU32(t) < s.mediatable_date THEN Err("TooEarly", a)
    ELSE IF IsSome(s.request_mediation_date) THEN Err("TooLate", a)
    ELSE Ok([a EXCEPT !.storage = Some([s EXCEPT !.request_mediation_date =
                                                      Some(AsU32(t))])])

RequestMediation(a, t, payer, signed) ==
    IF ~signed THEN Err("MissingRequiredSignature", a)
    ELSE IF IsNone(a.storage) THEN Err("InvalidAccountData", a)
    ELSE LET s == Unwrap(a.storage) IN
    IF IsNone(s.purchase) THEN Err("OptionUnwrapError", a)
    ELSE IF payer # s.authorized_withdrawer /\ payer # Unwrap(s.purchase).buyer
         THEN Err("NotAuthorized", a)
    ELSE IF AsU32(t) < s.mediatable_date THEN Err("TooEarly", a)
    ELSE IF IsSome(s.request_mediation_date) THEN Err("TooLate", a)
    ELSE Ok([a EXCEPT !.storage = Some([s EXCEPT !.request_mediation_date =
                                                      Some(AsU32(t))])])

----------------------------------------------------------------------------
(* ValidateSecondaryItemsTransfers *)

\* A variant that never finds the purchase finalized.
PurchaseFinalizedOverlooked(s) == FALSE

\* `if let Some(purchase_data) = &storage_data.purchase` with
\* `purchase_data.date_finalized.is_some()`: the stored purchase is finalized.
PurchaseFinalized(s) == IsSome(s.purchase) /\ IsSome(Unwrap(s.purchase).date_finalized)

\* A variant that stores the finalization and moves the purchase date with it.
AssignDateFinalizedRedating(s, t) ==
    [s EXCEPT !.purchase = Some([Unwrap(s.purchase) EXCEPT
                                    !.date = AsU32(t),
                                    !.date_finalized = Some(AsU32(t))])]

\* `storage_data.purchase.error_log(..)?.date_finalized = Some(now)`:
\* Option<Purchase> is Copy and OptionExt::error_log takes self by value, so
\* the assignment writes the field of a temporary copy of the purchase; the
\* purchase inside storage_data, which is what gets serialized, stays as it was.
AssignDateFinalized(s, t) ==
    LET temporary == [Unwrap(s.purchase) EXCEPT !.date_finalized = Some(AsU32(t))]
    IN  s

\* A variant that pays the seller the escrowed price share only and leaves the
\* second copy of the item costs in the escrow.
ReleaseEscrowKeepingItemCosts(l, checks, buyer, seller, items) ==
    LET t1 == SystemTransfer(l, ESCROW_ACCOUNT, buyer, SumCosts(items))
        t2 == SystemTransfer(t1.l, ESCROW_ACCOUNT, seller,
                             IF t1.l[ESCROW_ACCOUNT] >= SumCosts(items)
                             THEN t1.l[ESCROW_ACCOUNT] - SumCosts(items)
                             ELSE t1.l[ESCROW_ACCOUNT])
    IN  IF checks /\ SumU64(items).overflow THEN [err |-> "Panic", l |-> l]
        ELSE IF ~(t1.ok /\ t2.ok) THEN [err |-> "InsufficientFunds", l |-> l]
        ELSE [err |-> "Ok", l |-> t2.l]

\* A variant that pays the buyer what the escrow holds when that is less than
\* the item costs.
ReleaseEscrowWhatIsLeft(l, checks, buyer, seller, items) ==
    LET due == IF l[ESCROW_ACCOUNT] < SumCosts(items) THEN l[ESCROW_ACCOUNT]
               ELSE SumCosts(items)
        t1 == SystemTransfer(l, ESCROW_ACCOUNT, buyer, due)
        t2 == SystemTransfer(t1.l, ESCROW_ACCOUNT, seller, t1.l[ESCROW_ACCOUNT])
    IN  IF checks /\ SumU64(items).overflow THEN [err |-> "Panic", l |-> l]
        ELSE IF ~(t1.ok /\ t2.ok) THEN [err |-> "InsufficientFunds", l |-> l]
        ELSE [err |-> "Ok", l |-> t2.l]

\* What happens once no item is left unvalidated: the item costs are summed
\* with sum::<u64>(), which panics on overflow in a build with overflow
\* checks (`checks`) and wraps otherwise; then two transfers, the sum to the
\* buyer and what the escrow holds after that to the seller.
ReleaseEscrow(l, checks, buyer, seller, items) ==
    LET t1 == SystemTransfer(l, ESCROW_ACCOUNT, buyer, SumCosts(items))
        t2 == SystemTransfer(t1.l, ESCROW_ACCOUNT, seller, t1.l[ESCROW_ACCOUNT])
    IN  IF checks /\ SumU64(items).overflow THEN [err |-> "Panic", l |-> l]
        ELSE IF ~(t1.ok /\ t2.ok) THEN [err |-> "InsufficientFunds", l |-> l]
        ELSE [err |-> "Ok", l |-> t2.l]

\* A variant that validates an item again when it is validated already.
ValidateAgain(a, t, checks, buyer, signed, aw, item_index) ==
    IF ~signed THEN Err("MissingRequiredSignature", a)
    ELSE IF IsNone(a.storage) THEN Err("InvalidAccountData", a)
    ELSE LET s == Unwrap(a.storage) IN
    IF aw # s.authorized_withdrawer THEN Err("AddressMismatch", a)
    ELSE IF PurchaseFinalized(s)
         THEN Err("TooLate", a)
    ELSE IF IsNone(s.purchase) THEN Err("OptionUnwrapError", a)
    ELSE IF buyer # Unwrap(s.purchase).buyer THEN Err("AddressMismatch", a)
    ELSE IF item_index + 1 > Len(s.secondary_items) THEN Err("Panic", a)
    ELSE LET s1 == [s EXCEPT !.secondary_items[item_index + 1].date_validated =
                                 Some(AsU32(t))]
         IN IF AnyItemUnvalidated(s1.secondary_items)
            THEN Ok([a EXCEPT !.storage = Some(s1)])
            ELSE LET tr == ReleaseEscrow(a.lamports, checks, buyer, aw, s1.secondary_items)
                 IN IF tr.err # "Ok" THEN Err(tr.err, a)
                    ELSE Ok([a EXCEPT !.lamports = tr.l,
                                      !.storage = Some(AssignDateFinalized(s1, t))])

\* A variant that does not compare the signer with the recorded buyer.
ValidateByAnyone(a, t, checks, buyer, signed, aw, item_index) ==
    IF ~signed THEN Err("MissingRequiredSignature", a)
    ELSE IF IsNone(a.storage) THEN Err("InvalidAccountData", a)
    ELSE LET s == Unwrap(a.storage) IN
    IF aw # s.authorized_withdrawer THEN Err("AddressMismatch", a)
    ELSE IF PurchaseFinalized(s)
         THEN Err("TooLate", a)
    ELSE IF IsNone(s.purchase) THEN Err("OptionUnwrapError", a)
    ELSE IF item_index + 1 > Len(s.secondary_items) THEN Err("Panic", a)
    ELSE IF IsSome(s.secondary_items[item_index + 1].date_validated)
         THEN Err("TooLate", a)
    ELSE LET s1 == [s EXCEPT !.secondary_items[item_index + 1].date_validated =
                                 Some(AsU32(t))]
         IN IF AnyItemUnvalidated(s1.secondary_items)
            THEN Ok([a EXCEPT !.storage = Some(s1)])
            ELSE LET tr == ReleaseEscrow(a.lamports, checks, buyer, aw, s1.secondary_items)
                 IN IF tr.err # "Ok" THEN Err(tr.err, a)
                    ELSE Ok([a EXCEPT !.lamports = tr.l,
                                      !.storage = Some(AssignDateFinalized(s1, t))])

\* A variant that stamps every item of the record with the time of the call.
ValidateStampingAll(a, t, checks, buyer, signed, aw, item_index) ==
    IF ~signed THEN Err("MissingRequiredSignature", a)
    ELSE IF IsNone(a.storage) THEN Err("InvalidAccountData", a)
    ELSE LET s == Unwrap(a.storage) IN
    IF aw # s.authorized_withdrawer THEN Err("AddressMismatch", a)
    ELSE IF PurchaseFinalized(s)
         THEN Err("TooLate", a)
    ELSE IF IsNone(s.purchase) THEN Err("OptionUnwrapError", a)
    ELSE IF buyer # Unwrap(s.purchase).buyer THEN Err("AddressMismatch", a)
    ELSE IF item_index + 1 > Len(s.secondary_items) THEN Err("Panic", a)
    ELSE IF IsSome(s.secondary_items[item_index + 1].date_validated)
         THEN Err("TooLate", a)
    ELSE LET s1 == [s EXCEPT !.secondary_items =
                        [i \in 1..Len(s.secondary_items) |->
                            IF i = item_index + 1 \/ IsSome(s.secondary_items[i].date_validated)
                            THEN [s.secondary_items[i] EXCEPT !.date_validated = Some(AsU32(t))]
                            ELSE s.secondary_items[i]]]
         IN IF AnyItemUnvalidated(s1.secondary_items)
            THEN Ok([a EXCEPT !.storage = Some(s1)])
            ELSE LET tr == ReleaseEscrow(a.lamports, checks, buyer, aw, s1.secondary_items)
                 IN IF tr.err # "Ok" THEN Err(tr.err, a)
                    ELSE Ok([a EXCEPT !.lamports = tr.l,
                                      !.storage = Some(AssignDateFinalized(s1, t))])

ValidateSecondaryItemsTransfers(a, t, checks, buyer, signed, aw, item_index) ==
    IF ~signed THEN Err("MissingRequiredSignature", a)
    ELSE IF IsNone(a.storage) THEN Err("InvalidAccountData", a)
    ELSE LET s == Unwrap(a.storage) IN
    IF aw # s.authorized_withdrawer THEN Err("AddressMismatch", a)
    ELSE IF PurchaseFinalized(s)
         THEN Err("TooLate", a)
    ELSE IF IsNone(s.purchase) THEN Err("OptionUnwrapError", a)
    ELSE IF buyer # Unwrap(s.purchase).buyer THEN Err("AddressMismatch", a)
    ELSE IF item_index + 1 > Len(s.secondary_items) THEN Err("Panic", a)
    ELSE IF IsSome(s.secondary_items[item_index + 1].date_validated)
         THEN Err("TooLate", a)
    ELSE LET s1 == [s EXCEPT !.secondary_items[item_index + 1].date_validated =
                                 Some(AsU32(t))]
         IN IF AnyItemUnvalidated(s1.secondary_items)
            THEN Ok([a EXCEPT !.storage = Some(s1)])
            ELSE LET tr == ReleaseEscrow(a.lamports, checks, buyer, aw, s1.secondary_items)
                 IN IF tr.err # "Ok" THEN Err(tr.err, a)
                    ELSE Ok([a EXCEPT !.lamports = tr.l,
                                      !.storage = Some(AssignDateFinalized(s1, t))])

----------------------------------------------------------------------------
(* Mediate *)

\* MediationShares::verify_sum: `self.buyer + self.seller + self.team != 100`
\* is u8 arithmetic. A build with overflow checks panics when a partial sum
\* exceeds 255; a build without them wraps modulo 256.
VerifySum(shares, checks) ==
    LET s1 == shares[1] + shares[2]
        s2 == (s1 % U8_MOD) + shares[3]
    IN  IF checks /\ (s1 >= U8_MOD \/ s2 >= U8_MOD) THEN "Panic"
        ELSE IF s2 % U8_MOD # 100 THEN "InvalidData"
        ELSE "Ok"

\* escrow.lamports().checked_mul(share)?.checked_div(100)?: None when the
\* product leaves u64.
MediateToBuyer(balance, shares) ==
    IF balance * shares[1] >= U64_MOD THEN None
    ELSE Some((balance * shares[1]) \div 100)

MediateToSeller(balance, shares) ==
    IF balance * shares[2] >= U64_MOD THEN None
    ELSE Some((balance * shares[2]) \div 100)

\* A variant that computes the team's part from its share like the other two.
MediateToTeamByShare(balance, shares) == Some((balance * shares[3]) \div 100)

\* checked_sub of the escrow balance and to_buyer.checked_add(to_seller):
\* None when one of the two parts is None, when their sum leaves u64 and when
\* the difference is negative. Each None is returned as OptionUnwrapError.
MediateToTeam(balance, shares) ==
    LET to_buyer == MediateToBuyer(balance, shares)
        to_seller == MediateToSeller(balance, shares)
    IN  IF IsNone(to_buyer) \/ IsNone(to_seller) THEN None
        ELSE IF Unwrap(to_buyer) + Unwrap(to_seller) >= U64_MOD THEN None
        ELSE IF balance - (Unwrap(to_buyer) + Unwrap(to_seller)) < 0 THEN None
        ELSE Some(balance - (Unwrap(to_buyer) + Unwrap(to_seller)))

\* The closure do_transfers of Mediate.
MediateTransfers(l, seller, buyer, to_seller, to_buyer, to_team) ==
    LET t1 == SystemTransfer(l, ESCROW_ACCOUNT, seller, to_seller)
        t2 == IF to_buyer > 0
              THEN SystemTransfer(t1.l, ESCROW_ACCOUNT, buyer, to_buyer)
              ELSE t1
        t3 == IF to_team > 0
              THEN SystemTransfer(t2.l, ESCROW_ACCOUNT, TEAM_ADDRESS, to_team)
              ELSE t2
    IN  [ok |-> t1.ok /\ t2.ok /\ t3.ok, l |-> t3.l]

\* A variant that does not look at mediation_date.
MediateAgain(a, t, checks, payer, signed, aw, buyer, shares) ==
    IF ~signed THEN Err("MissingRequiredSignature", a)
    ELSE IF payer \notin MEDIATORS THEN Err("NotAuthorized", a)
    ELSE IF IsNone(a.storage) THEN Err("InvalidAccountData", a)
    ELSE LET s == Unwrap(a.storage) IN
    IF PurchaseFinalized(s)
    THEN Err("TooLate", a)
    ELSE IF aw # s.authorized_withdrawer THEN Err("AddressMismatch", a)
    ELSE IF IsNone(s.request_mediation_date) THEN Err("TooEarly", a)
    ELSE IF IsNone(s.purchase) THEN Err("OptionUnwrapError", a)
    ELSE IF buyer # Unwrap(s.purchase).buyer THEN Err("AddressMismatch", a)
    ELSE LET s1 == AssignDateFinalized([s EXCEPT !.mediation_date = Some(AsU32(t))], t)
             v  == VerifySum(shares, checks)
             B  == a.lamports[ESCROW_ACCOUNT]
             to_team == MediateToTeam(B, shares)
         IN IF v # "Ok" THEN Err(v, a)
            ELSE IF IsNone(to_team) THEN Err("OptionUnwrapError", a)
            ELSE LET tr == MediateTransfers(a.lamports, aw, buyer,
                                            Unwrap(MediateToSeller(B, shares)),
                                            Unwrap(MediateToBuyer(B, shares)),
                                            Unwrap(to_team))
                 IN IF ~tr.ok THEN Err("InsufficientFunds", a)
                    ELSE Ok([a EXCEPT !.lamports = tr.l, !.storage = Some(s1)])

\* A variant that takes the decision of any signer.
MediateByAnyone(a, t, checks, payer, signed, aw, buyer, shares) ==
    IF ~signed THEN Err("MissingRequiredSignature", a)
    ELSE IF IsNone(a.storage) THEN Err("InvalidAccountData", a)
    ELSE LET s == Unwrap(a.storage) IN
    IF PurchaseFinalized(s)
    THEN Err("TooLate", a)
    ELSE IF aw # s.authorized_withdrawer THEN Err("AddressMismatch", a)
    ELSE IF IsSome(s.request_mediation_date) /\ IsSome(s.mediation_date)
         THEN Err("TooLate", a)
    ELSE IF IsNone(s.request_mediation_date) THEN Err("TooEarly", a)
    ELSE IF IsNone(s.purchase) THEN Err("OptionUnwrapError", a)
    ELSE IF buyer # Unwrap(s.purchase).buyer THEN Err("AddressMismatch", a)
    ELSE LET s1 == AssignDateFinalized([s EXCEPT !.mediation_date = Some(AsU32(t))], t)
             v  == VerifySum(shares, checks)
             B  == a.lamports[ESCROW_ACCOUNT]
             to_team == MediateToTeam(B, shares)
         IN IF v # "Ok" THEN Err(v, a)
            ELSE IF IsNone(to_team) THEN Err("OptionUnwrapError", a)
            ELSE LET tr == MediateTransfers(a.lamports, aw, buyer,
                                            Unwrap(MediateToSeller(B, shares)),
                                            Unwrap(MediateToBuyer(B, shares)),
                                            Unwrap(to_team))
                 IN IF ~tr.ok THEN Err("InsufficientFunds", a)
                    ELSE Ok([a EXCEPT !.lamports = tr.l, !.storage = Some(s1)])

\* A variant that does not wait for a request.
MediateUnrequested(a, t, checks, payer, signed, aw, buyer, shares) ==
    IF ~signed THEN Err("MissingRequiredSignature", a)
    ELSE IF payer \notin MEDIATORS THEN Err("NotAuthorized", a)
    ELSE IF IsNone(a.storage) THEN Err("InvalidAccountData", a)
    ELSE LET s == Unwrap(a.storage) IN
    IF PurchaseFinalized(s)
    THEN Err("TooLate", a)
    ELSE IF aw # s.authorized_withdrawer THEN Err("AddressMismatch", a)
    ELSE IF IsSome(s.mediation_date) THEN Err("TooLate", a)
    ELSE IF IsNone(s.purchase) THEN Err("OptionUnwrapError", a)
    ELSE IF buyer # Unwrap(s.purchase).buyer THEN Err("AddressMismatch", a)
    ELSE LET s1 == AssignDateFinalized([s EXCEPT !.mediation_date = Some(AsU32(t))], t)
             v  == VerifySum(shares, checks)
             B  == a.lamports[ESCROW_ACCOUNT]
             to_team == MediateToTeam(B, shares)
         IN IF v # "Ok" THEN Err(v, a)
            ELSE IF IsNone(to_team) THEN Err("OptionUnwrapError", a)
            ELSE LET tr == MediateTransfers(a.lamports, aw, buyer,
                                            Unwrap(MediateToSeller(B, shares)),
                                            Unwrap(MediateToBuyer(B, shares)),
                                            Unwrap(to_team))
                 IN IF ~tr.ok THEN Err("InsufficientFunds", a)
                    ELSE Ok([a EXCEPT !.lamports = tr.l, !.storage = Some(s1)])

Mediate(a, t, checks, payer, signed, aw, buyer, shares) ==
    IF ~signed THEN Err("MissingRequiredSignature", a)
    ELSE IF payer \notin MEDIATORS THEN Err("NotAuthorized", a)
    ELSE IF IsNone(a.storage) THEN Err("InvalidAccountData", a)
    ELSE LET s == Unwrap(a.storage) IN
    IF PurchaseFinalized(s)
    THEN Err("TooLate", a)
    ELSE IF aw # s.authorized_withdrawer THEN Err("AddressMismatch", a)
    ELSE IF IsSome(s.request_mediation_date) /\ IsSome(s.mediation_date)
         THEN Err("TooLate", a)
    ELSE IF IsNone(s.request_mediation_date) THEN Err("TooEarly", a)
    ELSE IF IsNone(s.purchase) THEN Err("OptionUnwrapError", a)
    ELSE IF buyer # Unwrap(s.purchase).buyer THEN Err("AddressMismatch", a)
    ELSE LET s1 == AssignDateFinalized([s EXCEPT !.mediation_date = Some(AsU32(t))], t)
             v  == VerifySum(shares, checks)
             B  == a.lamports[ESCROW_ACCOUNT]
             to_team == MediateToTeam(B, shares)
         IN IF v # "Ok" THEN Err(v, a)
            ELSE IF IsNone(to_team) THEN Err("OptionUnwrapError", a)
            ELSE LET tr == MediateTransfers(a.lamports, aw, buyer,
                                            Unwrap(MediateToSeller(B, shares)),
                                            Unwrap(MediateToBuyer(B, shares)),
                                            Unwrap(to_team))
                 IN IF ~tr.ok THEN Err("InsufficientFunds", a)
                    ELSE Ok([a EXCEPT !.lamports = tr.l, !.storage = Some(s1)])

----------------------------------------------------------------------------
(* WithdrawRewards *)

\* VoteState::min_lamports(): the rent-exempt reserve of a vote account.
VoteMinLamports == 10

\* A variant that withdraws the whole balance of the vote account.
WithdrawRewardsWholeBalance(a, aw, vote) ==
    IF IsNone(a.storage) THEN Err("InvalidAccountData", a)
    ELSE LET s == Unwrap(a.storage) IN
    IF vote # s.vote_account THEN Err("AddressMismatch", a)
    ELSE IF aw # s.authorized_withdrawer THEN Err("AddressMismatch", a)
    ELSE IF a.vote_lamports[vote] < VoteMinLamports THEN Err("OptionUnwrapError", a)
    ELSE IF a.vote_withdrawer[vote] # PDA_AUTHORIZED_WITHDRAWER
         THEN Err("MissingRequiredSignature", a)
    ELSE Ok([a EXCEPT !.vote_lamports[vote] = 0,
                      !.lamports[aw] = @ + a.vote_lamports[vote]])

\* A variant that pays whatever recipient the caller names.
WithdrawRewardsToAnyone(a, aw, vote) ==
    IF IsNone(a.storage) THEN Err("InvalidAccountData", a)
    ELSE LET s == Unwrap(a.storage) IN
    IF vote # s.vote_account THEN Err("AddressMismatch", a)
    ELSE IF a.vote_lamports[vote] < VoteMinLamports THEN Err("OptionUnwrapError", a)
    ELSE IF a.vote_withdrawer[vote] # PDA_AUTHORIZED_WITHDRAWER
         THEN Err("MissingRequiredSignature", a)
    ELSE Ok([a EXCEPT !.vote_lamports[vote] = VoteMinLamports,
                      !.lamports[aw] = @ + (a.vote_lamports[vote] - VoteMinLamports)])

WithdrawRewards(a, aw, vote) ==
    IF IsNone(a.storage) THEN Err("InvalidAccountData", a)
    ELSE LET s == Unwrap(a.storage) IN
    IF vote # s.vote_account THEN Err("AddressMismatch", a)
    ELSE IF aw # s.authorized_withdrawer THEN Err("AddressMismatch", a)
    ELSE IF a.vote_lamports[vote] < VoteMinLamports THEN Err("OptionUnwrapError", a)
    ELSE IF a.vote_withdrawer[vote] # PDA_AUTHORIZED_WITHDRAWER
         THEN Err("MissingRequiredSignature", a)
    ELSE Ok([a EXCEPT !.vote_lamports[vote] = VoteMinLamports,
                      !.lamports[aw] = @ + (a.vote_lamports[vote] - VoteMinLamports)])

----------------------------------------------------------------------------
(* The state machine *)

\* Account keys a caller may pass where the recorded seller is expected.
SellerKeys == {"S", "B2"}

\* Account keys a caller may pass where the recorded buyer is expected.
BuyerKeys == {"S", "B1"}

\* item_index values a caller may pass.
ItemIndexes == 0..2

\* The List instructions a caller may send at time t. The well-formed ones
\* carry every offer with a mediatable date that is soon, and one offer with
\* a mediatable date that is already reached and with the last one accepted;
\* each of the others has one thing wrong.
ListCalls(t) ==
    LET good(o, m) == [seller |-> "S", current_ua |-> "S", signed |-> TRUE,
                       vote |-> "V1", cost |-> o.cost, items |-> o.items,
                       mediatable_date |-> m, name_empty |-> FALSE,
                       registry_ok |-> TRUE]
        g == good([cost |-> 5, items |-> <<50>>], 1)
    IN  {good(o, 1) : o \in Offers}
        \cup {[g EXCEPT !.mediatable_date = 0],
              [g EXCEPT !.mediatable_date = t + THIRTY_DAYS],
              [g EXCEPT !.mediatable_date = t + THIRTY_DAYS + 1],
              [g EXCEPT !.name_empty = TRUE],
              [g EXCEPT !.signed = FALSE],
              [g EXCEPT !.seller = "B2"],
              [g EXCEPT !.current_ua = "B2"],
              [g EXCEPT !.vote = "V2"],
              [g EXCEPT !.registry_ok = FALSE]}

\* The Mediate instructions a caller may send: the mediator with every shares
\* triple, and calls with one thing wrong (no signature, a signer that is no
\* mediator, a seller key that is not the recorded one).
MediateCalls ==
    LET good(b, sh) == [payer |-> "T", signed |-> TRUE, aw |-> "S", buyer |-> b,
                        shares |-> sh]
    IN  {good(b, sh) : b \in BuyerKeys, sh \in ShareTriples}
        \cup {[good(b, <<40, 40, 20>>) EXCEPT !.signed = FALSE] : b \in BuyerKeys}
        \cup {[good(b, <<40, 40, 20>>) EXCEPT !.payer = p] : b \in BuyerKeys, p \in {"S", "B1"}}
        \cup {[good(b, <<40, 40, 20>>) EXCEPT !.aw = "B2"] : b \in BuyerKeys}

\* The ValidateSecondaryItemsTransfers instructions a caller may send.
ValidateCalls ==
    LET good(b, i) == [buyer |-> b, signed |-> TRUE, aw |-> "S", item_index |-> i]
    IN  {good(b, i) : b \in BuyerKeys \cup {"B2"}, i \in ItemIndexes}
        \cup {[good(b, 0) EXCEPT !.signed = FALSE] : b \in BuyerKeys}
        \cup {[good(b, 0) EXCEPT !.aw = "B2"] : b \in BuyerKeys}

NoShares == <<0, 0, 0>>

NoFee == [price |-> 0, n_items |-> 0, to_owner |-> 0, escrow_cut |-> 0,
          to_team |-> 0, done |-> FALSE]

InitLedger ==
    /\ storage = None
    /\ storage_lamports = 0
    /\ lamports = [x \in Accounts |->
                      IF x \in {"S", "B1"} THEN RichLamports
                      ELSE IF x = "B2" THEN PoorLamports ELSE 0]
    /\ vote_withdrawer = [v \in VoteAccounts |-> IF v = "V1" THEN "S" ELSE "B2"]
    /\ vote_lamports = [v \in VoteAccounts |-> VoteInitLamports]
    /\ upgrade_authority = "S"
    /\ now = 0
    /\ last = [op |-> "Init", err |-> "Ok", who |-> "S", signed |-> TRUE,
               vote |-> "V1", idx |-> 0, shares |-> NoShares]
    /\ pre = Cur

Init ==
    /\ InitLedger
    /\ fee = NoFee

\* One instruction, processed atomically. A rejected instruction (an Err or
\* a panic) rolls the transaction back and leaves no trace on the ledger; an
\* accepted one installs r.st and is recorded, with the accounts it started from.
Commit(op, r, who, signed, vote, idx, shares) ==
    IF r.err = "Ok"
    THEN /\ storage' = r.st.storage
         /\ storage_lamports' = r.st.storage_lamports
         /\ lamports' = r.st.lamports
         /\ vote_withdrawer' = r.st.vote_withdrawer
         /\ vote_lamports' = r.st.vote_lamports
         /\ upgrade_authority' = r.st.upgrade_authority
         /\ last' = [op |-> op, err |-> r.err, who |-> who, signed |-> signed,
                     vote |-> vote, idx |-> idx, shares |-> shares]
         /\ pre' = Cur
         /\ UNCHANGED <<now, fee>>
    ELSE UNCHANGED vars

List ==
    \E c \in ListCalls(now) :
          Commit("List",
                 ListValidator(Cur, now, c.seller, c.current_ua, c.signed, c.vote,
                               c.cost, c.items, c.mediatable_date, c.name_empty,
                               c.registry_ok),
                 c.seller, c.signed, c.vote, 0, NoShares)

Delist ==
    \E seller \in SellerKeys, current_upgrade_authority \in SellerKeys,
       signed \in BOOLEAN, vote \in VoteAccounts :
        Commit("Delist",
               DelistValidator(Cur, seller, current_upgrade_authority, signed, vote),
               seller, signed, vote, 0, NoShares)

\* As for Mediate, the build either traps the overflow of to_escrow or wraps.
Buy ==
    \E payer \in Identities, registered_aw \in SellerKeys, vote \in VoteAccounts,
       overflow_checks \in BOOLEAN :
        Commit("Buy", BuyValidator(Cur, now, overflow_checks, payer, registered_aw, vote),
               payer, TRUE, vote, 0, NoShares)

WithdrawRewardsStep ==
    \E aw \in SellerKeys, vote \in VoteAccounts :
        Commit("WithdrawRewards", WithdrawRewards(Cur, aw, vote),
               aw, FALSE, vote, 0, NoShares)

RequestMediationStep ==
    \E payer \in Identities, signed \in BOOLEAN :
        Commit("RequestMediation", RequestMediation(Cur, now, payer, signed),
               payer, signed, "V1", 0, NoShares)

\* The build either traps integer overflow (overflow_checks, the debug
\* profile) or wraps (the release profile). A trapped instruction is a
\* rejected one, so the choice shows in this instruction alone.
MediateStep ==
    \E c \in MediateCalls, overflow_checks \in BOOLEAN :
        Commit("Mediate",
               Mediate(Cur, now, overflow_checks, c.payer, c.signed, c.aw, c.buyer,
                       c.shares),
               c.payer, c.signed, "V1", 0, c.shares)

\* The build matters to the sum of the item costs when the escrow is released.
ValidateStep ==
    \E c \in ValidateCalls, overflow_checks \in BOOLEAN :
        Commit("Validate",
               ValidateSecondaryItemsTransfers(Cur, now, overflow_checks, c.buyer,
                                               c.signed, c.aw, c.item_index),
               c.buyer, c.signed, "V1", c.item_index, NoShares)

\* Holders of a vote account that act on it outside the program.
OutsideHolders == {"B2"}

\* Outside the program: the holder of a vote account's withdraw authority
\* hands it to the program's withdrawer pda with the vote program itself.
ExternalAuthorize ==
    /\ \E v \in VoteAccounts :
          /\ vote_withdrawer[v] \in OutsideHolders
          /\ vote_withdrawer' = [vote_withdrawer EXCEPT ![v] = PDA_AUTHORIZED_WITHDRAWER]
          /\ last' = [op |-> "ExternalAuthorize", err |-> "Ok", who |-> vote_withdrawer[v],
                      signed |-> TRUE, vote |-> v, idx |-> 0, shares |-> NoShares]
    /\ pre' = Cur
    /\ UNCHANGED <<storage, storage_lamports, lamports, vote_lamports,
                   upgrade_authority, now, fee>>

\* The ledger clock advances between instructions.
Tick ==
    /\ now < MaxTime
    /\ now' = now + 1
    /\ last' = [op |-> "Tick", err |-> "Ok", who |-> "S", signed |-> TRUE,
                vote |-> "V1", idx |-> 0, shares |-> NoShares]
    /\ pre' = Cur
    /\ UNCHANGED <<storage, storage_lamports, lamports, vote_withdrawer, vote_lamports,
                   upgrade_authority, fee>>

Next ==
    \/ List
    \/ Delist
    \/ Buy
    \/ WithdrawRewardsStep
    \/ RequestMediationStep
    \/ MediateStep
    \/ ValidateStep
    \/ ExternalAuthorize
    \/ Tick

Spec == Init /\ [][Next]_vars

----------------------------------------------------------------------------
(* The same program with listings whose item costs reach the upper half of
   u64: List stores whatever costs it is given, and Buy then sums and doubles
   them. *)

\* Offers whose to_escrow leaves u64 in the doubling, in the sum and in the
\* final addition, and one that stays inside.
U64Offers == {[cost |-> 5, items |-> <<U64_MOD \div 2>>],
              [cost |-> 5, items |-> <<U64_MOD - 1, 1>>],
              [cost |-> 1005, items |-> <<U64_MOD \div 2 - 100>>],
              [cost |-> 5, items |-> <<50>>]}

U64ListCalls(t) ==
    {[seller |-> "S", current_ua |-> "S", signed |-> TRUE, vote |-> "V1",
      cost |-> o.cost, items |-> o.items, mediatable_date |-> 1,
      name_empty |-> FALSE, registry_ok |-> TRUE] : o \in U64Offers}

ListU64 ==
    \E c \in U64ListCalls(now) :
          Commit("List",
                 ListValidator(Cur, now, c.seller, c.current_ua, c.signed, c.vote,
                               c.cost, c.items, c.mediatable_date, c.name_empty,
                               c.registry_ok),
                 c.seller, c.signed, c.vote, 0, NoShares)

NextU64 ==
    \/ ListU64
    \/ Delist
    \/ Buy
    \/ WithdrawRewardsStep
    \/ RequestMediationStep
    \/ MediateStep
    \/ ValidateStep
    \/ ExternalAuthorize
    \/ Tick

SpecU64 == Init /\ [][NextU64]_vars

----------------------------------------------------------------------------
(* The program with two funded buyers: B2 holds as much as B1, so that two
   payers other than the seller can each afford the same listing. *)

InitTwoBuyers ==
    /\ storage = None
    /\ storage_lamports = 0
    /\ lamports = [x \in Accounts |->
                      IF x \in {"S", "B1", "B2"} THEN RichLamports ELSE 0]
    /\ vote_withdrawer = [v \in VoteAccounts |-> IF v = "V1" THEN "S" ELSE "B2"]
    /\ vote_lamports = [v \in VoteAccounts |-> VoteInitLamports]
    /\ upgrade_authority = "S"
    /\ now = 0
    /\ last = [op |-> "Init", err |-> "Ok", who |-> "S", signed |-> TRUE,
               vote |-> "V1", idx |-> 0, shares |-> NoShares]
    /\ pre = Cur
    /\ fee = NoFee

SpecTwoBuyers == InitTwoBuyers /\ [][Next]_vars

----------------------------------------------------------------------------
(* The fee split of Buy on its own: every price up to MaxFeePrice, for a
   listing without and with secondary items. The three floors repeat with
   period BASIS_POINTS in the price, so one period shows every rounding. *)

InitFee ==
    /\ InitLedger
    /\ \E price \in 0..MaxFeePrice, n_items \in 0..1 :
          fee = [NoFee EXCEPT !.price = price, !.n_items = n_items]

\* to_owner, the escrow's share of the price and to_team as Buy computes them.
FeeCompute ==
    /\ ~fee.done
    /\ fee' = [fee EXCEPT !.to_owner = ToOwner(fee.price, fee.n_items),
                          !.escrow_cut = EscrowCut(fee.price, fee.n_items),
                          !.to_team = ToTeam(fee.price),
                          !.done = TRUE]
    /\ UNCHANGED <<storage, storage_lamports, lamports, vote_withdrawer, vote_lamports,
                   upgrade_authority, now, last, pre>>

NextFee == FeeCompute

SpecFee == InitFee /\ [][NextFee]_vars

----------------------------------------------------------------------------
(* Properties *)

\* The record, its purchase and its items in the current state and in the
\* state before the last accepted instruction.
Listing == Unwrap(storage)

PreListing == Unwrap(pre.storage)

Sold(st) == IsSome(st) /\ IsSome(Unwrap(st).purchase)

RECURSIVE CostsTotal(_)
\* The sum of the item costs as a number, whatever its size.
CostsTotal(items) ==
    IF items = << >> THEN 0 ELSE Head(items).cost + CostsTotal(Tail(items))

ItemCostSum(s) == CostsTotal(s.secondary_items)

AllValidated(s) == \A i \in 1..Len(s.secondary_items) :
                       IsSome(s.secondary_items[i].date_validated)

\* The balances after moving `amounts` (a sequence of <<from, to, amount>>)
\* over the balances l.
RECURSIVE Moved(_, _)
Moved(l, amounts) ==
    IF amounts = << >> THEN l
    ELSE LET m == Head(amounts)
             l1 == [x \in DOMAIN l |->
                       l[x] - (IF x = m[1] THEN m[3] ELSE 0) + (IF x = m[2] THEN m[3] ELSE 0)]
         IN  Moved(l1, Tail(amounts))

\* Everything but the system accounts' balances and the record is as before
\* the last accepted instruction.
OnlyLamportsAndStorageChanged ==
    /\ storage_lamports = pre.storage_lamports
    /\ vote_lamports = pre.vote_lamports
    /\ upgrade_authority = pre.upgrade_authority

\* C1: Buy on a listing that already has a purchase is rejected and changes
\* nothing, with TooLate when the seller key passed is the recorded one; every
\* accepted Buy started from an unsold listing, and while the record lives no
\* instruction replaces the buyer of its purchase.
C1_BuyOnceOnly ==
    /\ Sold(storage) =>
          \A payer \in Identities, aw \in SellerKeys, vote \in VoteAccounts,
             overflow_checks \in BOOLEAN :
              LET r == BuyValidator(Cur, now, overflow_checks, payer, aw, vote)
              IN  /\ r.err # "Ok"
                  /\ r.st = Cur
                  /\ (aw = Listing.authorized_withdrawer => r.err = "TooLate")
    /\ last.op = "Buy" => IsSome(pre.storage) /\ ~Sold(pre.storage)
    /\ (Sold(pre.storage) /\ IsSome(storage)) =>
          /\ Sold(storage)
          /\ Unwrap(Listing.purchase).buyer = Unwrap(PreListing.purchase).buyer

\* A first Buy has just been accepted and a second one, by another payer who
\* holds the price, is rejected with TooLate.
C1_Witness ==
    /\ last.op = "Buy"
    /\ \E payer \in Identities \ {last.who} :
          /\ lamports[payer] >= Listing.authorized_withdrawer_cost + 2 * ItemCostSum(Listing)
          /\ \A overflow_checks \in BOOLEAN :
                BuyValidator(Cur, now, overflow_checks, payer, "S", "V1").err = "TooLate"

\* C2: an accepted Buy at time now by payer P leaves purchase.buyer = P,
\* purchase.date = now and purchase.date_finalized = Some(now) exactly when
\* the listing has no secondary items, None otherwise.
C2_PurchaseRecorded ==
    last.op = "Buy" =>
        /\ Sold(storage)
        /\ LET p == Unwrap(Listing.purchase)
           IN  /\ p.buyer = last.who
               /\ p.date = now
               /\ (Listing.secondary_items = << >> => p.date_finalized = Some(now))
               /\ (Listing.secondary_items # << >> => p.date_finalized = None)

\* A Buy at time 1 of a listing without secondary items: finalized at once.
C2_Witness ==
    /\ last.op = "Buy"
    /\ now = 1
    /\ Listing.secondary_items = << >>
    /\ Unwrap(Listing.purchase).date_finalized = Some(1)

\* C3: for a listing with secondary items the three cuts of the price add up
\* to the price less at most 2, never to more than the price, and the basis points
\* of escrow and team together do not exceed 10000, so the owner's share is
\* not negative.
C3_FeeSplitWithinPrice ==
    (fee.done /\ fee.n_items >= 1) =>
        /\ fee.to_owner + fee.escrow_cut + fee.to_team <= fee.price
        /\ fee.to_owner + fee.escrow_cut + fee.to_team >= fee.price - 2
        /\ fee.to_owner = (fee.price * (10000 - 2000 - 10)) \div 10000
        /\ fee.escrow_cut = (fee.price * 2000) \div 10000
        /\ fee.to_team = (fee.price * 10) \div 10000
        /\ ESCROWED_BASIS_POINTS + TEAM_FEES_BASIS_POINTS <= 10000
        /\ fee.to_owner >= 0

\* A price whose three cuts lose the full 2 units to rounding.
C3_Witness ==
    /\ fee.done
    /\ fee.n_items >= 1
    /\ fee.price > 0
    /\ fee.to_owner + fee.escrow_cut + fee.to_team = fee.price - 2

\* C4: an accepted Buy of a listing of price p moves from the payer
\* p*(10000 - E - 10)/10000 to the seller, p*E/10000 + 2*sum(item costs) to
\* the escrow and p*10/10000 to the team, with E = 2000 when the listing has
\* secondary items and 0 otherwise (then the escrow receives nothing); every
\* balance is its old value plus what these three payments bring and take, so
\* a payer who is neither the seller nor the team is down by their sum, and
\* no other balance changes.
C4_BuyPayments ==
    last.op = "Buy" =>
        LET s == PreListing
            p == s.authorized_withdrawer_cost
            E == IF s.secondary_items # << >> THEN 2000 ELSE 0
            to_seller == (p * (10000 - E - 10)) \div 10000
            to_the_escrow == (p * E) \div 10000 + 2 * ItemCostSum(s)
            to_the_team == (p * 10) \div 10000
        IN  /\ lamports = Moved(pre.lamports,
                                << <<last.who, s.authorized_withdrawer, to_seller>>,
                                   <<last.who, ESCROW_ACCOUNT, to_the_escrow>>,
                                   <<last.who, TEAM_ADDRESS, to_the_team>> >>)
            /\ last.who \notin {s.authorized_withdrawer, TEAM_ADDRESS} =>
                  lamports[last.who] =
                      pre.lamports[last.who] - (to_seller + to_the_escrow + to_the_team)
            /\ s.secondary_items = << >> =>
                  lamports[ESCROW_ACCOUNT] = pre.lamports[ESCROW_ACCOUNT]
            /\ OnlyLamportsAndStorageChanged

\* A third party has bought the listing of price 1005 with one item of cost 7:
\* 802 to the seller, 201 + 14 to the escrow, 1 to the team.
C4_Witness ==
    /\ last.op = "Buy"
    /\ last.who = "B1"
    /\ PreListing.authorized_withdrawer_cost = 1005
    /\ PreListing.secondary_items # << >>
    /\ lamports["S"] = pre.lamports["S"] + 802
    /\ lamports[ESCROW_ACCOUNT] = pre.lamports[ESCROW_ACCOUNT] + 215
    /\ lamports[TEAM_ADDRESS] = pre.lamports[TEAM_ADDRESS] + 1
    /\ lamports["B1"] = pre.lamports["B1"] - 1018

\* C5: after an accepted Buy the withdraw authority of the vote account the
\* listing records is the buyer, and the vote account passed to that Buy was
\* the recorded one.
C5_BuyerHoldsRecordedVoteAccount ==
    last.op = "Buy" =>
        /\ last.vote = Listing.vote_account
        /\ vote_withdrawer[Listing.vote_account] = Unwrap(Listing.purchase).buyer

\* C6: an accepted validation of the last unvalidated item pays the sum of
\* the item costs from the escrow to the buyer and all that is left in the
\* escrow to the seller; the escrow ends at 0, the two gains add up to what it
\* held, and no other balance changes.
C6_LastValidationReleasesEscrow ==
    (last.op = "Validate" /\ AllValidated(Listing)) =>
        LET s == PreListing
            held == pre.lamports[ESCROW_ACCOUNT]
            buyer == Unwrap(s.purchase).buyer
            to_the_buyer == ItemCostSum(s)
        IN  /\ last.who = buyer
            /\ to_the_buyer <= held
            /\ lamports = Moved(pre.lamports,
                                << <<ESCROW_ACCOUNT, buyer, to_the_buyer>>,
                                   <<ESCROW_ACCOUNT, s.authorized_withdrawer,
                                     held - to_the_buyer>> >>)
            /\ lamports[ESCROW_ACCOUNT] = 0
            /\ OnlyLamportsAndStorageChanged

\* The buyer B1 has validated the last of the two items (10 and 3) of a
\* listing of price 5: 13 back to the buyer, 14 to the seller, escrow empty.
C6_Witness ==
    /\ last.op = "Validate"
    /\ AllValidated(Listing)
    /\ Len(Listing.secondary_items) = 2
    /\ last.who = "B1"
    /\ pre.lamports[ESCROW_ACCOUNT] = 27
    /\ lamports["B1"] = pre.lamports["B1"] + 13
    /\ lamports["S"] = pre.lamports["S"] + 14
    /\ lamports[ESCROW_ACCOUNT] = 0

\* C7: after an accepted validation of the last unvalidated item at time now
\* the stored purchase.date_finalized is Some(now).
C7_LastValidationFinalizes ==
    (last.op = "Validate" /\ AllValidated(Listing)) =>
        Unwrap(Listing.purchase).date_finalized = Some(now)

\* C8: after an accepted Mediate at time now the stored mediation_date and
\* the stored purchase.date_finalized are both Some(now).
C8_MediateFinalizes ==
    last.op = "Mediate" =>
        /\ Listing.mediation_date = Some(now)
        /\ Unwrap(Listing.purchase).date_finalized = Some(now)

\* C9: an accepted Mediate with shares {b, s, t} over an escrow holding B
\* pays floor(B*b/100) to the buyer, floor(B*s/100) to the seller and the rest
\* of B to the team; the escrow ends at 0 and no other balance changes.
C9_MediatePayments ==
    last.op = "Mediate" =>
        LET s == PreListing
            B == pre.lamports[ESCROW_ACCOUNT]
            buyer == Unwrap(s.purchase).buyer
            to_the_buyer == (B * last.shares[1]) \div 100
            to_the_seller == (B * last.shares[2]) \div 100
            to_the_team == B - to_the_buyer - to_the_seller
        IN  /\ to_the_team >= 0
            /\ to_the_buyer + to_the_seller + to_the_team = B
            /\ lamports = Moved(pre.lamports,
                                << <<ESCROW_ACCOUNT, buyer, to_the_buyer>>,
                                   <<ESCROW_ACCOUNT, s.authorized_withdrawer, to_the_seller>>,
                                   <<ESCROW_ACCOUNT, TEAM_ADDRESS, to_the_team>> >>)
            /\ lamports[ESCROW_ACCOUNT] = 0
            /\ OnlyLamportsAndStorageChanged

\* Shares {40, 40, 20} over an escrow of 101: 40 to the buyer, 40 to the
\* seller and 21 to the team.
C9_Witness ==
    /\ last.op = "Mediate"
    /\ last.shares = <<40, 40, 20>>
    /\ pre.lamports[ESCROW_ACCOUNT] = 101
    /\ Unwrap(PreListing.purchase).buyer = "B1"
    /\ lamports["B1"] = pre.lamports["B1"] + 40
    /\ lamports["S"] = pre.lamports["S"] + 40
    /\ lamports[TEAM_ADDRESS] = pre.lamports[TEAM_ADDRESS] + 21
    /\ lamports[ESCROW_ACCOUNT] = 0

\* C10: Mediate with shares whose integer sum is not 100 is rejected and
\* leaves funds and record alone, so every accepted Mediate carried shares
\* that add up to exactly 100.
C10_SharesSumTo100 ==
    last.op = "Mediate" => last.shares[1] + last.shares[2] + last.shares[3] = 100

\* The Delist the recorded seller sends for the current record: own key for
\* both authorities, signed, with the recorded vote account.
SellerDelist ==
    DelistValidator(Cur, Listing.authorized_withdrawer, Listing.authorized_withdrawer,
                    TRUE, Listing.vote_account)

\* C11: Delist of a listing that has a purchase and an unvalidated secondary
\* item is rejected with TooEarly and changes nothing.
C11_DelistPendingTooEarly ==
    (Sold(storage) /\ AnyItemUnvalidated(Listing.secondary_items)) =>
        /\ SellerDelist.err = "TooEarly"
        /\ SellerDelist.st = Cur

\* C12: whenever the listing has a purchase and no secondary item is left
\* unvalidated, the Delist signed by the recorded seller is accepted: the
\* record is gone and its lamports are with the seller.
C12_DelistAfterSettlement ==
    (Sold(storage) /\ AllValidated(Listing)) =>
        /\ SellerDelist.err = "Ok"
        /\ SellerDelist.st.storage = None
        /\ SellerDelist.st.storage_lamports = 0
        /\ SellerDelist.st.lamports =
              [lamports EXCEPT ![Listing.authorized_withdrawer] = @ + storage_lamports]

\* C13: Delist of an unsold listing signed by the recorded seller is always
\* accepted, whatever the mediatable date and the items: the record is
\* zeroed, its balance is 0 and the seller's balance is up by exactly what
\* the record held; no other system balance changes.
C13_DelistUnsold ==
    (IsSome(storage) /\ ~Sold(storage)) =>
        /\ SellerDelist.err = "Ok"
        /\ SellerDelist.st.storage = None
        /\ SellerDelist.st.storage_lamports = 0
        /\ SellerDelist.st.lamports =
              [lamports EXCEPT ![Listing.authorized_withdrawer] = @ + storage_lamports]

\* C15: the record is destroyed only when unsold, or when its purchase is
\* finalized and no secondary item is left unvalidated: every accepted Delist
\* started from such a state, and while the listing is sold and its purchase
\* is not finalized or an item is unvalidated, every Delist, with whatever
\* accounts, is rejected and changes nothing.
C15_DelistOnlyUnsoldOrSettled ==
    /\ last.op = "Delist" =>
          \/ ~Sold(pre.storage)
          \/ /\ IsSome(Unwrap(PreListing.purchase).date_finalized)
             /\ AllValidated(PreListing)
    /\ (IsSome(pre.storage) /\ IsNone(storage)) =>
          \/ ~Sold(pre.storage)
          \/ /\ IsSome(Unwrap(PreListing.purchase).date_finalized)
             /\ AllValidated(PreListing)
    /\ (Sold(storage) /\ (IsNone(Unwrap(Listing.purchase).date_finalized)
                             \/ ~AllValidated(Listing))) =>
          \A seller \in Identities, current_upgrade_authority \in Identities,
             signed \in BOOLEAN, vote \in VoteAccounts :
              LET r == DelistValidator(Cur, seller, current_upgrade_authority, signed, vote)
              IN  r.err # "Ok" /\ r.st = Cur

\* A sold listing with an unvalidated item whose recorded vote account is
\* still under the withdrawer pda, so that the seller's Delist gets as far as
\* the items: it is rejected with TooEarly.
C15_Witness ==
    /\ Sold(storage)
    /\ IsNone(Unwrap(Listing.purchase).date_finalized)
    /\ ~AllValidated(Listing)
    /\ vote_withdrawer[Listing.vote_account] = PDA_AUTHORIZED_WITHDRAWER
    /\ SellerDelist.err = "TooEarly"
    /\ SellerDelist.st = Cur

\* C16: while the stored purchase.date_finalized is set, every Mediate and
\* every ValidateSecondaryItemsTransfers is rejected and leaves the accounts
\* as they are; the error is TooLate once the call gets as far as the record
\* (a signed Mediate by a mediator, a signed validation naming the recorded
\* seller).
C16_SettledAdmitsNoSettlement ==
    (Sold(storage) /\ IsSome(Unwrap(Listing.purchase).date_finalized)) =>
        /\ \A c \in MediateCalls, overflow_checks \in BOOLEAN :
              LET r == Mediate(Cur, now, overflow_checks, c.payer, c.signed, c.aw,
                               c.buyer, c.shares)
              IN  /\ r.err # "Ok"
                  /\ r.st = Cur
                  /\ (c.signed /\ c.payer \in MEDIATORS) => r.err = "TooLate"
        /\ \A b \in Identities, sg \in BOOLEAN, aw \in SellerKeys, i \in ItemIndexes,
             overflow_checks \in BOOLEAN :
              LET r == ValidateSecondaryItemsTransfers(Cur, now, overflow_checks, b, sg, aw, i)
              IN  /\ r.err # "Ok"
                  /\ r.st = Cur
                  /\ (sg /\ aw = Listing.authorized_withdrawer) => r.err = "TooLate"

\* A finalized purchase on which mediation has been requested: the
\* mediator's Mediate and the buyer's validation both come back TooLate.
C16_Witness ==
    /\ Sold(storage)
    /\ IsSome(Unwrap(Listing.purchase).date_finalized)
    /\ IsSome(Listing.request_mediation_date)
    /\ IsNone(Listing.mediation_date)
    /\ \A overflow_checks \in BOOLEAN :
          Mediate(Cur, now, overflow_checks, "T", TRUE, Listing.authorized_withdrawer,
                  Unwrap(Listing.purchase).buyer, <<40, 40, 20>>).err = "TooLate"
    /\ (\A overflow_checks \in BOOLEAN :
             ValidateSecondaryItemsTransfers(Cur, now, overflow_checks,
                 Unwrap(Listing.purchase).buyer, TRUE, Listing.authorized_withdrawer, 0).err = "TooLate")

\* C17: the escrow is released at most once per purchase: no Mediate is
\* accepted after the last secondary item has been validated, and no
\* validation is accepted after a Mediate.
C17_EscrowReleasedOnce ==
    /\ last.op = "Mediate" =>
          ~(PreListing.secondary_items # << >> /\ AllValidated(PreListing))
    /\ last.op = "Validate" => IsNone(PreListing.mediation_date)

\* C18: a validation of an item that is validated already is rejected and
\* changes nothing, with TooLate when it is the signed call of the recorded
\* buyer naming the recorded seller; while the record lives a date_validated
\* that is set is never changed.
C18_ItemValidatedOnce ==
    /\ Sold(storage) =>
          \A b \in Identities, sg \in BOOLEAN, aw \in SellerKeys, i \in ItemIndexes,
             overflow_checks \in BOOLEAN :
              (i + 1 <= Len(Listing.secondary_items)
               /\ IsSome(Listing.secondary_items[i + 1].date_validated)) =>
                  LET r == ValidateSecondaryItemsTransfers(Cur, now, overflow_checks, b, sg, aw, i)
                  IN  /\ r.err # "Ok"
                      /\ r.st = Cur
                      /\ (sg /\ aw = Listing.authorized_withdrawer
                             /\ b = Unwrap(Listing.purchase).buyer) => r.err = "TooLate"
    /\ (IsSome(pre.storage) /\ IsSome(storage)) =>
          /\ Len(Listing.secondary_items) = Len(PreListing.secondary_items)
          /\ \A i \in 1..Len(PreListing.secondary_items) :
                IsSome(PreListing.secondary_items[i].date_validated) =>
                    Listing.secondary_items[i].date_validated =
                        PreListing.secondary_items[i].date_validated

\* At time 1 the first of two items carries the validation date 0, the
\* second is still open, and the buyer's repeated validation of the first
\* is rejected with TooLate.
C18_Witness ==
    /\ Sold(storage)
    /\ now = 1
    /\ Len(Listing.secondary_items) = 2
    /\ Listing.secondary_items[1].date_validated = Some(0)
    /\ IsNone(Listing.secondary_items[2].date_validated)
    /\ (\A overflow_checks \in BOOLEAN :
             ValidateSecondaryItemsTransfers(Cur, now, overflow_checks,
                 Unwrap(Listing.purchase).buyer, TRUE, Listing.authorized_withdrawer, 0).err = "TooLate")

\* C19: an accepted validation that leaves an item unvalidated moves no
\* funds and changes nothing in the record but the date_validated of the
\* item named; purchase.date_finalized stays unset.
C19_PartialValidationFrame ==
    (last.op = "Validate" /\ ~AllValidated(Listing)) =>
        /\ lamports = pre.lamports
        /\ OnlyLamportsAndStorageChanged
        /\ vote_withdrawer = pre.vote_withdrawer
        /\ IsNone(PreListing.secondary_items[last.idx + 1].date_validated)
        /\ storage = Some([PreListing EXCEPT
                              !.secondary_items[last.idx + 1].date_validated = Some(now)])
        /\ IsNone(Unwrap(Listing.purchase).date_finalized)

\* The first of two items has just been validated by the buyer B1: the
\* escrow still holds its 27 lamports.
C19_Witness ==
    /\ last.op = "Validate"
    /\ last.who = "B1"
    /\ last.idx = 0
    /\ ~AllValidated(Listing)
    /\ Listing.secondary_items[1].date_validated = Some(now)
    /\ lamports[ESCROW_ACCOUNT] = 27
    /\ pre.lamports[ESCROW_ACCOUNT] = 27

\* C20: a validation that is unsigned, or sent before any Buy, or sent by
\* anyone but the recorded buyer (the seller and the mediator included) is
\* rejected and changes nothing; every accepted validation was signed by the
\* buyer of a purchased listing.
C20_OnlyBuyerValidates ==
    /\ \A b \in Identities, sg \in BOOLEAN, aw \in SellerKeys, i \in ItemIndexes,
             overflow_checks \in BOOLEAN :
          (~sg \/ ~Sold(storage) \/ b # Unwrap(Listing.purchase).buyer) =>
              LET r == ValidateSecondaryItemsTransfers(Cur, now, overflow_checks, b, sg, aw, i)
              IN  r.err # "Ok" /\ r.st = Cur
    /\ last.op = "Validate" =>
          /\ Sold(pre.storage)
          /\ last.signed
          /\ last.who = Unwrap(PreListing.purchase).buyer

\* B1 has bought a listing with an open item: the buyer's validation would
\* be accepted, the seller's and the mediator's signed calls are rejected
\* for the key, an unsigned call of the buyer for the signature.
C20_Witness ==
    /\ Sold(storage)
    /\ Unwrap(Listing.purchase).buyer = "B1"
    /\ Listing.authorized_withdrawer = "S"
    /\ (\A overflow_checks \in BOOLEAN :
             ValidateSecondaryItemsTransfers(Cur, now, overflow_checks, "B1", TRUE, "S", 0).err = "Ok")
    /\ (\A overflow_checks \in BOOLEAN :
             ValidateSecondaryItemsTransfers(Cur, now, overflow_checks, "S", TRUE, "S", 0).err = "AddressMismatch")
    /\ (\A overflow_checks \in BOOLEAN :
             ValidateSecondaryItemsTransfers(Cur, now, overflow_checks, "T", TRUE, "S", 0).err = "AddressMismatch")
    /\ (\A overflow_checks \in BOOLEAN :
             ValidateSecondaryItemsTransfers(Cur, now, overflow_checks, "B1", FALSE, "S", 0).err = "MissingRequiredSignature")

\* The seller and the buyer recorded in a sold listing.
Parties == {Listing.authorized_withdrawer, Unwrap(Listing.purchase).buyer}

\* C21: on a sold listing, a RequestMediation signed by the buyer or the
\* seller at a time strictly before mediatable_date is rejected with TooEarly
\* and changes nothing, and no request is recorded yet at such a time; at a
\* time equal to or after mediatable_date the first request is accepted and
\* changes request_mediation_date to the current time and nothing else.
C21_RequestMediationWindow ==
    /\ Sold(storage) =>
          \A payer \in Parties :
              LET r == RequestMediation(Cur, now, payer, TRUE)
              IN  IF now < Listing.mediatable_date
                  THEN /\ r.err = "TooEarly"
                       /\ r.st = Cur
                       /\ IsNone(Listing.request_mediation_date)
                  ELSE IsNone(Listing.request_mediation_date) =>
                          /\ r.err = "Ok"
                          /\ r.st = [Cur EXCEPT !.storage =
                                        Some([Listing EXCEPT !.request_mediation_date =
                                                                  Some(now)])]
    /\ last.op = "RequestMediation" =>
          /\ Sold(pre.storage)
          /\ now >= PreListing.mediatable_date
          /\ IsNone(PreListing.request_mediation_date)
          /\ storage = Some([PreListing EXCEPT !.request_mediation_date = Some(now)])
          /\ lamports = pre.lamports
          /\ vote_withdrawer = pre.vote_withdrawer
          /\ OnlyLamportsAndStorageChanged

\* A request has just been accepted at the very time mediatable_date, on a
\* listing that was bought before that time.
C21_Witness ==
    /\ last.op = "RequestMediation"
    /\ now = Listing.mediatable_date
    /\ Unwrap(Listing.purchase).date < Listing.mediatable_date
    /\ Listing.request_mediation_date = Some(now)

\* C22: once request_mediation_date is recorded, a RequestMediation signed by
\* the buyer or the seller is rejected with TooLate and no RequestMediation
\* of anyone is accepted; every accepted request started from a record
\* without one, and while the record lives no instruction changes the
\* recorded request_mediation_date.
C22_RequestMediationOnce ==
    /\ (IsSome(storage) /\ IsSome(Listing.request_mediation_date)) =>
          /\ Sold(storage)
          /\ \A payer \in Parties :
                LET r == RequestMediation(Cur, now, payer, TRUE)
                IN  r.err = "TooLate" /\ r.st = Cur
          /\ \A payer \in Identities, signed \in BOOLEAN :
                LET r == RequestMediation(Cur, now, payer, signed)
                IN  r.err # "Ok" /\ r.st = Cur
    /\ last.op = "RequestMediation" => IsNone(PreListing.request_mediation_date)
    /\ (IsSome(pre.storage) /\ IsSome(PreListing.request_mediation_date) /\ IsSome(storage))
          => Listing.request_mediation_date = PreListing.request_mediation_date

\* A request was recorded at an earlier time; at the current time the buyer
\* and the seller (two identities) each get TooLate.
C22_Witness ==
    /\ IsSome(storage)
    /\ IsSome(Listing.request_mediation_date)
    /\ Unwrap(Listing.request_mediation_date) < now
    /\ Cardinality(Parties) = 2
    /\ \A payer \in Parties : RequestMediation(Cur, now, payer, TRUE).err = "TooLate"

\* C23: a signed RequestMediation on an unsold listing is rejected with
\* OptionUnwrapError whoever sends it, and on a sold listing one signed by
\* anyone but the recorded seller and the recorded buyer is rejected with
\* NotAuthorized; the rejected request changes nothing. Every accepted
\* request was signed by the seller or the buyer of a listing with a purchase.
C23_RequestMediationByParties ==
    /\ IsSome(storage) =>
          \A payer \in Identities :
              LET r == RequestMediation(Cur, now, payer, TRUE)
              IN  /\ ~Sold(storage) => r.err = "OptionUnwrapError" /\ r.st = Cur
                  /\ (Sold(storage) /\ payer \notin Parties) =>
                        r.err = "NotAuthorized" /\ r.st = Cur
    /\ last.op = "RequestMediation" =>
          /\ last.signed
          /\ Sold(pre.storage)
          /\ last.who \in {PreListing.authorized_withdrawer,
                           Unwrap(PreListing.purchase).buyer}

\* A sold listing past its mediatable date without a request: the buyer's
\* request would be accepted, the request of somebody else is NotAuthorized.
C23_Witness ==
    /\ Sold(storage)
    /\ IsNone(Listing.request_mediation_date)
    /\ now >= Listing.mediatable_date
    /\ RequestMediation(Cur, now, Unwrap(Listing.purchase).buyer, TRUE).err = "Ok"
    /\ \E payer \in Identities \ Parties :
          RequestMediation(Cur, now, payer, TRUE).err = "NotAuthorized"

\* The Mediate instructions of the mediator that name the recorded seller.
MediatorCalls == {c \in MediateCalls : c.payer \in MEDIATORS /\ c.signed
                                       /\ c.aw = Listing.authorized_withdrawer}

\* C24 as stated: the mediator's Mediate on a record without a request is
\* rejected with TooEarly, and on a record with mediation_date set with
\* TooLate, and moves no funds; every accepted Mediate started from a record
\* with a request and without a mediation_date.
C24_MediateAfterRequestOnce ==
    /\ (IsSome(storage)
          /\ (IsNone(Listing.request_mediation_date) \/ IsSome(Listing.mediation_date))) =>
          \A c \in MediatorCalls, overflow_checks \in BOOLEAN :
              LET r == Mediate(Cur, now, overflow_checks, c.payer, c.signed, c.aw,
                               c.buyer, c.shares)
              IN  /\ IsNone(Listing.request_mediation_date) =>
                        r.err = "TooEarly" /\ r.st = Cur
                  /\ IsSome(Listing.mediation_date) =>
                        r.err = "TooLate" /\ r.st = Cur
    /\ last.op = "Mediate" =>
          /\ IsSome(PreListing.request_mediation_date)
          /\ IsNone(PreListing.mediation_date)

\* C24, amended: as above, but without a request the error is TooEarly only
\* when the purchase is not finalized; on a finalized purchase it is TooLate.
\* While the record lives, a mediation_date once set stays as it is.
C24_MediateAfterRequestOnceUnfinalized ==
    /\ (IsSome(storage)
          /\ (IsNone(Listing.request_mediation_date) \/ IsSome(Listing.mediation_date))) =>
          \A c \in MediatorCalls, overflow_checks \in BOOLEAN :
              LET r == Mediate(Cur, now, overflow_checks, c.payer, c.signed, c.aw,
                               c.buyer, c.shares)
              IN  /\ IsNone(Listing.request_mediation_date) =>
                        /\ r.err = IF PurchaseFinalized(Listing) THEN "TooLate"
                                   ELSE "TooEarly"
                        /\ r.st = Cur
                  /\ IsSome(Listing.mediation_date) =>
                        r.err = "TooLate" /\ r.st = Cur
    /\ last.op = "Mediate" =>
          /\ IsSome(PreListing.request_mediation_date)
          /\ IsNone(PreListing.mediation_date)
          /\ IsSome(Listing.mediation_date)
    /\ (IsSome(pre.storage) /\ IsSome(PreListing.mediation_date) /\ IsSome(storage))
          => Listing.mediation_date = PreListing.mediation_date

\* A Mediate has just been accepted, after a request, and a second one of the
\* mediator with shares that sum to 100 is rejected with TooLate.
C24_Witness ==
    /\ last.op = "Mediate"
    /\ IsSome(Listing.request_mediation_date)
    /\ Listing.mediation_date = Some(now)
    /\ \A overflow_checks \in BOOLEAN :
          Mediate(Cur, now, overflow_checks, "T", TRUE, Listing.authorized_withdrawer,
                  Unwrap(Listing.purchase).buyer, <<40, 40, 20>>).err = "TooLate"

\* C25: whatever the record, a Mediate that its payer did not sign is
\* rejected with MissingRequiredSignature, and one signed by an identity that
\* is not in MEDIATORS (the buyer, the seller, anyone else) with
\* NotAuthorized; the rejected call leaves the escrow balance and everything
\* else as it was. Every accepted Mediate was signed by a mediator.
C25_OnlyMediatorsMediate ==
    /\ \A payer \in Identities, signed \in BOOLEAN, buyer \in BuyerKeys,
          overflow_checks \in BOOLEAN :
            LET r == Mediate(Cur, now, overflow_checks, payer, signed, "S", buyer,
                             <<40, 40, 20>>)
            IN  /\ ~signed => r.err = "MissingRequiredSignature" /\ r.st = Cur
                /\ (signed /\ payer \notin MEDIATORS) =>
                      r.err = "NotAuthorized" /\ r.st = Cur
    /\ last.op = "Mediate" => last.signed /\ last.who \in MEDIATORS

\* A requested mediation is open: the mediator's call would be accepted,
\* the same call signed by the buyer or by the seller is NotAuthorized and
\* the mediator's call without signature is MissingRequiredSignature.
C25_Witness ==
    /\ Sold(storage)
    /\ IsSome(Listing.request_mediation_date)
    /\ IsNone(Listing.mediation_date)
    /\ lamports[ESCROW_ACCOUNT] > 0
    /\ Cardinality(Parties) = 2
    /\ \A overflow_checks \in BOOLEAN :
       LET call(payer, signed) ==
               Mediate(Cur, now, overflow_checks, payer, signed,
                       Listing.authorized_withdrawer, Unwrap(Listing.purchase).buyer,
                       <<40, 40, 20>>)
       IN  /\ call("T", TRUE).err = "Ok"
           /\ call("T", FALSE).err = "MissingRequiredSignature"
           /\ \A payer \in Parties : call(payer, TRUE).err = "NotAuthorized"

\* C26: an accepted WithdrawRewards named the recorded vote account and the
\* recorded seller, carried no signature of the caller, left the vote account
\* with exactly VoteMinLamports, added the difference to the recorded
\* seller's balance and changed nothing else; and with any balance of the
\* recorded vote account below VoteMinLamports the instruction is rejected
\* and nothing is transferred.
C26_WithdrawRewardsAmount ==
    /\ last.op = "WithdrawRewards" =>
          /\ ~last.signed
          /\ IsSome(pre.storage)
          /\ last.vote = PreListing.vote_account
          /\ last.who = PreListing.authorized_withdrawer
          /\ pre.vote_lamports[last.vote] >= VoteMinLamports
          /\ vote_lamports = [pre.vote_lamports EXCEPT ![last.vote] = VoteMinLamports]
          /\ lamports = [pre.lamports EXCEPT ![PreListing.authorized_withdrawer] =
                            @ + (pre.vote_lamports[last.vote] - VoteMinLamports)]
          /\ storage = pre.storage
          /\ storage_lamports = pre.storage_lamports
          /\ vote_withdrawer = pre.vote_withdrawer
          /\ upgrade_authority = pre.upgrade_authority
    /\ IsSome(storage) =>
          \A balance \in 0..(VoteMinLamports - 1) :
              LET a == [Cur EXCEPT !.vote_lamports[Listing.vote_account] = balance]
                  r == WithdrawRewards(a, Listing.authorized_withdrawer,
                                       Listing.vote_account)
              IN  r.err = "OptionUnwrapError" /\ r.st = a

\* A WithdrawRewards has just moved a positive amount of rewards.
C26_Witness ==
    /\ last.op = "WithdrawRewards"
    /\ pre.vote_lamports[last.vote] > VoteMinLamports
    /\ vote_lamports[last.vote] = VoteMinLamports
    /\ lamports[last.who] > pre.lamports[last.who]

\* C27: while a record exists, a WithdrawRewards that names a vote account
\* other than the recorded one or a recipient other than the recorded seller
\* is rejected with AddressMismatch and withdraws nothing; and an accepted
\* WithdrawRewards leaves the record, its lamports and the escrow balance as
\* they were.
C27_WithdrawRewardsAddressMismatch ==
    /\ IsSome(storage) =>
          \A aw \in Identities, vote \in VoteAccounts :
              (vote # Listing.vote_account \/ aw # Listing.authorized_withdrawer) =>
                  LET r == WithdrawRewards(Cur, aw, vote)
                  IN  r.err = "AddressMismatch" /\ r.st = Cur
    /\ last.op = "WithdrawRewards" =>
          /\ storage = pre.storage
          /\ storage_lamports = pre.storage_lamports
          /\ lamports[ESCROW_ACCOUNT] = pre.lamports[ESCROW_ACCOUNT]

\* Rewards are there to withdraw and the withdrawer pda holds both vote
\* accounts: the call naming the recorded vote account and seller would be
\* accepted, the calls naming another recipient or the other vote account
\* are AddressMismatch.
C27_Witness ==
    /\ IsSome(storage)
    /\ \A v \in VoteAccounts : /\ vote_withdrawer[v] = PDA_AUTHORIZED_WITHDRAWER
                               /\ vote_lamports[v] > VoteMinLamports
    /\ WithdrawRewards(Cur, Listing.authorized_withdrawer, Listing.vote_account).err = "Ok"
    /\ \E aw \in Identities \ {Listing.authorized_withdrawer} :
          WithdrawRewards(Cur, aw, Listing.vote_account).err = "AddressMismatch"
    /\ \E vote \in VoteAccounts \ {Listing.vote_account} :
          WithdrawRewards(Cur, Listing.authorized_withdrawer, vote).err = "AddressMismatch"

\* C28: whenever a List instruction is accepted, in the accounts it leaves
\* the withdraw authority of the supplied vote account is the withdrawer pda,
\* the upgrade authority is the upgrade pda, and the record holds the signing
\* seller, the supplied vote account, price and mediatable date, no purchase,
\* no request_mediation_date, no mediation_date, no mediation_shares, and the
\* supplied items, none of them validated; the record is funded by the seller
\* with the rent of its size. The state after every accepted List shows the same.
C28_ListEffects ==
    /\ \A c \in ListCalls(now) :
          LET r == ListValidator(Cur, now, c.seller, c.current_ua, c.signed, c.vote,
                                 c.cost, c.items, c.mediatable_date, c.name_empty,
                                 c.registry_ok)
              s == Unwrap(r.st.storage)
          IN  r.err = "Ok" =>
                /\ c.signed
                /\ r.st.vote_withdrawer = [vote_withdrawer EXCEPT ![c.vote] =
                                              PDA_AUTHORIZED_WITHDRAWER]
                /\ r.st.upgrade_authority = PDA_UPGRADE_AUTHORITY
                /\ IsSome(r.st.storage)
                /\ s.authorized_withdrawer = c.seller
                /\ s.vote_account = c.vote
                /\ s.authorized_withdrawer_cost = c.cost
                /\ s.mediatable_date = c.mediatable_date
                /\ s.purchase = None
                /\ s.request_mediation_date = None
                /\ s.mediation_date = None
                /\ s.mediation_shares = None
                /\ Len(s.secondary_items) = Len(c.items)
                /\ \A i \in 1..Len(c.items) :
                      /\ s.secondary_items[i].cost = c.items[i]
                      /\ s.secondary_items[i].date_validated = None
                /\ r.st.storage_lamports = RentMinimumBalance(StorageSpace(c.items))
                /\ r.st.lamports = [lamports EXCEPT ![c.seller] = @ - r.st.storage_lamports]
                /\ r.st.vote_lamports = vote_lamports
    /\ last.op = "List" =>
          /\ IsSome(storage)
          /\ vote_withdrawer[Listing.vote_account] = PDA_AUTHORIZED_WITHDRAWER
          /\ upgrade_authority = PDA_UPGRADE_AUTHORITY
          /\ Listing.authorized_withdrawer = last.who
          /\ Listing.vote_account = last.vote
          /\ pre.vote_withdrawer[last.vote] = last.who
          /\ Listing.purchase = None
          /\ Listing.request_mediation_date = None
          /\ Listing.mediation_date = None
          /\ Listing.mediation_shares = None
          /\ \A i \in 1..Len(Listing.secondary_items) :
                Listing.secondary_items[i].date_validated = None

\* A listing with two secondary items has just been accepted.
C28_Witness ==
    /\ last.op = "List"
    /\ Len(Listing.secondary_items) = 2
    /\ Listing.authorized_withdrawer = "S"
    /\ vote_withdrawer["V1"] = PDA_AUTHORIZED_WITHDRAWER
    /\ pre.vote_withdrawer["V1"] = "S"
    /\ upgrade_authority = PDA_UPGRADE_AUTHORITY

\* The List instruction of call c on the current accounts.
ListOf(c) ==
    ListValidator(Cur, now, c.seller, c.current_ua, c.signed, c.vote, c.cost, c.items,
                  c.mediatable_date, c.name_empty, c.registry_ok)

\* A signed List of one offer by S for vote account V1, and the ways to
\* get it wrong that C29 names, alone and together.
ListAttempts ==
    [seller : {"S", "B2"}, current_ua : {"S", "B2"}, signed : {TRUE}, vote : {"V1"},
     cost : {5}, items : {<<50>>},
     mediatable_date : {1, now + THIRTY_DAYS, now + THIRTY_DAYS + 1},
     name_empty : BOOLEAN, registry_ok : BOOLEAN]

\* C29: a List with a mediatable date more than THIRTY_DAYS after now is
\* rejected (with TooLate), else one with an empty validator name is
\* rejected with InvalidData, else one whose signer is not the upgrade
\* authority or not the vote account's withdraw authority is rejected with
\* AddressMismatch, and one whose registry call fails is rejected; a rejected
\* List creates no record and changes no authority and no balance. Where S
\* holds both authorities and no record exists, a List with a mediatable date
\* of exactly now + THIRTY_DAYS is accepted.
C29_ListRejections ==
    \A c \in ListAttempts :
        LET r == ListOf(c)
            late == c.mediatable_date > now + THIRTY_DAYS
        IN  /\ late => r.err = "TooLate"
            /\ (~late /\ c.name_empty) => r.err = "InvalidData"
            /\ (~late /\ ~c.name_empty
                  /\ (c.current_ua # upgrade_authority \/ c.seller # vote_withdrawer[c.vote]))
                  => r.err = "AddressMismatch"
            /\ ~c.registry_ok => r.err # "Ok"
            /\ r.err # "Ok" => r.st = Cur
            /\ (~late /\ ~c.name_empty /\ c.registry_ok /\ IsNone(storage)
                  /\ c.current_ua = upgrade_authority /\ c.seller = vote_withdrawer[c.vote])
                  => r.err = "Ok"

\* No record exists and S holds both authorities, some time after the start:
\* the List with a mediatable date of exactly now + THIRTY_DAYS would be
\* accepted, and each single fault has it rejected.
C29_Witness ==
    /\ IsNone(storage)
    /\ now > 0
    /\ upgrade_authority = "S"
    /\ vote_withdrawer["V1"] = "S"
    /\ LET g == [seller |-> "S", current_ua |-> "S", signed |-> TRUE, vote |-> "V1",
                 cost |-> 5, items |-> <<50>>, mediatable_date |-> now + THIRTY_DAYS,
                 name_empty |-> FALSE, registry_ok |-> TRUE]
       IN  /\ ListOf(g).err = "Ok"
           /\ ListOf([g EXCEPT !.mediatable_date = now + THIRTY_DAYS + 1]).err = "TooLate"
           /\ ListOf([g EXCEPT !.name_empty = TRUE]).err = "InvalidData"
           /\ ListOf([g EXCEPT !.seller = "B2"]).err = "AddressMismatch"
           /\ ListOf([g EXCEPT !.current_ua = "B2"]).err = "AddressMismatch"
           /\ ListOf([g EXCEPT !.registry_ok = FALSE]).err = "RegistryError"

\* C30: while a record exists every List is rejected and leaves the record,
\* its purchase and both authorities as they were, and the creation of the
\* record on its own is refused as well (the account is in use); every
\* accepted List started without a record, and a record disappears only by
\* an accepted Delist.
C30_OneListingAtATime ==
    /\ IsSome(storage) =>
          /\ \A c \in ListCalls(now) :
                LET r == ListOf(c) IN r.err # "Ok" /\ r.st = Cur
          /\ \A c \in ListCalls(now) :
                CreateStorageAndStoreData(Cur, c.seller, c.vote, c.cost, c.items,
                                          c.mediatable_date).err = "AccountAlreadyInUse"
    /\ last.op = "List" => IsNone(pre.storage) /\ IsSome(storage)
    /\ (IsSome(pre.storage) /\ IsNone(storage)) => last.op = "Delist"
    /\ (IsSome(pre.storage) /\ IsSome(storage)) =>
          /\ Listing.authorized_withdrawer = PreListing.authorized_withdrawer
          /\ Listing.vote_account = PreListing.vote_account
          /\ Listing.authorized_withdrawer_cost = PreListing.authorized_withdrawer_cost

\* A listing has just been accepted on an instance that had none; every
\* further List is rejected.
C30_Witness ==
    /\ last.op = "List"
    /\ IsNone(pre.storage)
    /\ IsSome(storage)
    /\ \A c \in ListCalls(now) : ListOf(c).err # "Ok"

\* C31: in every record, mediation_date set implies request_mediation_date
\* set, and request_mediation_date set implies purchase set; and whenever
\* the mediation_date of a living record changes, it was written by a
\* Mediate that found request_mediation_date set and mediation_date unset.
C31_LifecycleFieldsNested ==
    /\ IsSome(storage) =>
          /\ IsSome(Listing.mediation_date) => IsSome(Listing.request_mediation_date)
          /\ IsSome(Listing.request_mediation_date) => IsSome(Listing.purchase)
    /\ (IsSome(pre.storage) /\ IsSome(storage)
          /\ Listing.mediation_date # PreListing.mediation_date) =>
          /\ last.op = "Mediate"
          /\ IsSome(PreListing.request_mediation_date)
          /\ IsNone(PreListing.mediation_date)
          /\ Listing.mediation_date = Some(now)

\* All three are set: a listing bought, then requested, then mediated at a
\* later time than the request.
C31_Witness ==
    /\ IsSome(storage)
    /\ IsSome(Listing.purchase)
    /\ IsSome(Listing.request_mediation_date)
    /\ IsSome(Listing.mediation_date)
    /\ Unwrap(Listing.request_mediation_date) < Unwrap(Listing.mediation_date)

\* C32: across every accepted Buy, RequestMediation, Mediate,
\* ValidateSecondaryItemsTransfers and WithdrawRewards the record keeps its
\* items, and an item whose date_validated was set before has the same
\* date_validated after; the only item whose date_validated differs is the
\* one an accepted validation names, which was unset and is now the time of
\* that validation.
C32_DateValidatedMonotonic ==
    (last.op \in {"Buy", "RequestMediation", "Mediate", "Validate", "WithdrawRewards"}) =>
        /\ IsSome(pre.storage) /\ IsSome(storage)
        /\ Len(Listing.secondary_items) = Len(PreListing.secondary_items)
        /\ \A i \in 1..Len(PreListing.secondary_items) :
              LET before == PreListing.secondary_items[i].date_validated
                  after  == Listing.secondary_items[i].date_validated
              IN  /\ IsSome(before) => after = before
                  /\ after # before =>
                        /\ last.op = "Validate"
                        /\ last.idx + 1 = i
                        /\ after = Some(now)

\* The second item of a listing has just been validated at a later time
\* than the first, whose date_validated is still the earlier one.
C32_Witness ==
    /\ last.op = "Validate"
    /\ Len(Listing.secondary_items) = 2
    /\ \E i, j \in 1..2 :
          /\ last.idx + 1 = j
          /\ i # j
          /\ IsSome(PreListing.secondary_items[i].date_validated)
          /\ Unwrap(Listing.secondary_items[i].date_validated) < now
          /\ Listing.secondary_items[j].date_validated = Some(now)

\* C33: when the sum of the item costs, twice that sum, or twice that sum plus
\* the escrowed share of the price does not fit in u64, every Buy of the
\* listing is rejected and leaves every account as it was, and no accepted
\* Buy has put a wrapped amount into the escrow: the escrow gained exactly
\* twice the sum plus the escrowed share.
C33_BuyOverflowAborts ==
    /\ (IsSome(storage) /\ ~Sold(storage)
          /\ 2 * ItemCostSum(Listing)
               + EscrowCut(Listing.authorized_withdrawer_cost,
                           Len(Listing.secondary_items)) >= U64_MOD) =>
          \A payer \in Identities, vote \in VoteAccounts, overflow_checks \in BOOLEAN :
              LET r == BuyValidator(Cur, now, overflow_checks, payer,
                                    Listing.authorized_withdrawer, vote)
              IN  r.err # "Ok" /\ r.st = Cur
    /\ last.op = "Buy" =>
          /\ 2 * ItemCostSum(PreListing)
               + EscrowCut(PreListing.authorized_withdrawer_cost,
                           Len(PreListing.secondary_items)) < U64_MOD
          /\ lamports[ESCROW_ACCOUNT] - pre.lamports[ESCROW_ACCOUNT]
               = 2 * ItemCostSum(PreListing)
                   + EscrowCut(PreListing.authorized_withdrawer_cost,
                               Len(PreListing.secondary_items))

\* C34: two Buy instructions from different payers on the same unsold
\* listing, each of which would be accepted on its own, processed one after
\* the other in either order: the first is accepted and the second is
\* rejected with TooLate and changes nothing. The seller, the escrow and the
\* team are paid once, by the first payer; the second payer's balance is
\* untouched unless it is the seller or the team; the purchase names the
\* first payer, and so does the withdraw authority of the vote account that
\* payer passed.
C34_ConcurrentBuys ==
    (IsSome(storage) /\ ~Sold(storage)) =>
        \A p1 \in Identities, p2 \in Identities :
            p1 # p2 =>
                \A v1 \in VoteAccounts, v2 \in VoteAccounts, overflow_checks \in BOOLEAN :
                    LET aw == Listing.authorized_withdrawer
                        p == Listing.authorized_withdrawer_cost
                        first == BuyValidator(Cur, now, overflow_checks, p1, aw, v1)
                        alone == BuyValidator(Cur, now, overflow_checks, p2, aw, v2)
                        second == BuyValidator(first.st, now, overflow_checks, p2, aw, v2)
                    IN  (first.err = "Ok" /\ alone.err = "Ok") =>
                            /\ second.err = "TooLate"
                            /\ second.st = first.st
                            /\ Unwrap(Unwrap(first.st.storage).purchase).buyer = p1
                            /\ first.st.vote_withdrawer[v1] = p1
                            /\ first.st.lamports =
                                  Moved(lamports,
                                        << <<p1, aw, ToOwner(p, Len(Listing.secondary_items))>>,
                                           <<p1, ESCROW_ACCOUNT,
                                             ToEscrow(p, Listing.secondary_items)>>,
                                           <<p1, TEAM_ADDRESS, ToTeam(p)>> >>)
                            /\ p2 \notin {aw, TEAM_ADDRESS} =>
                                  first.st.lamports[p2] = lamports[p2]

\* B1 has just bought a listing that B2, who is neither the seller nor the
\* team, could have bought in the same state; B2's Buy is now rejected with
\* TooLate and B2 holds what it held.
C34_Witness ==
    /\ last.op = "Buy"
    /\ last.who = "B1"
    /\ IsSome(pre.storage)
    /\ BuyValidator(pre, now, FALSE, "B2", PreListing.authorized_withdrawer, last.vote).err
          = "Ok"
    /\ BuyValidator(Cur, now, FALSE, "B2", Listing.authorized_withdrawer, last.vote).err
          = "TooLate"
    /\ lamports["B2"] = pre.lamports["B2"]
    /\ lamports[ESCROW_ACCOUNT] > pre.lamports[ESCROW_ACCOUNT]
    /\ Unwrap(Listing.purchase).buyer = "B1"
    /\ vote_withdrawer[Listing.vote_account] = "B1"

\* C35: a Delist is accepted only when the account passed as the seller is
\* the recorded seller, has signed, and the vote account passed is the
\* recorded one. A Delist naming the buyer, the mediator or any other
\* identity as the seller, or one the seller has not signed, is rejected, and
\* a rejected Delist leaves the record, the withdraw authorities and the
\* upgrade authority as they were.
C35_DelistOnlyBySeller ==
    /\ IsSome(storage) =>
          \A seller \in Identities, current_upgrade_authority \in Identities,
             signed \in BOOLEAN, vote \in VoteAccounts :
              LET r == DelistValidator(Cur, seller, current_upgrade_authority, signed, vote)
              IN  /\ r.err = "Ok" =>
                        /\ seller = Listing.authorized_withdrawer
                        /\ signed
                        /\ vote = Listing.vote_account
                  /\ r.err # "Ok" =>
                        /\ r.st.storage = storage
                        /\ r.st.vote_withdrawer = vote_withdrawer
                        /\ r.st.upgrade_authority = upgrade_authority
                        /\ r.st = Cur
    /\ last.op = "Delist" =>
          /\ last.who = PreListing.authorized_withdrawer
          /\ last.signed
          /\ last.vote = PreListing.vote_account

\* An unsold listing has just been made: a Delist naming B1, the mediator or
\* B2 as the seller is rejected for the key, the seller's own Delist without
\* a signature for the signature, and one with the other vote account is
\* rejected as well; record and authorities are where List put them.
C35_Witness ==
    /\ last.op = "List"
    /\ IsSome(storage)
    /\ vote_withdrawer[Listing.vote_account] = PDA_AUTHORIZED_WITHDRAWER
    /\ upgrade_authority = PDA_UPGRADE_AUTHORITY
    /\ \A other \in Identities \ {Listing.authorized_withdrawer} :
          /\ DelistValidator(Cur, other, other, TRUE, Listing.vote_account).err
                = "AddressMismatch"
          /\ DelistValidator(Cur, other, other, TRUE, Listing.vote_account).st = Cur
    /\ DelistValidator(Cur, Listing.authorized_withdrawer, Listing.authorized_withdrawer,
                       FALSE, Listing.vote_account).err = "MissingRequiredSignature"
    /\ \A vote \in VoteAccounts \ {Listing.vote_account} :
          DelistValidator(Cur, Listing.authorized_withdrawer, Listing.authorized_withdrawer,
                          TRUE, vote).err # "Ok"

RECURSIVE BalanceOf(_, _)
\* The lamports that the accounts of `holders` hold together.
BalanceOf(l, holders) ==
    IF holders = {} THEN 0
    ELSE LET x == CHOOSE y \in holders : TRUE
         IN  l[x] + BalanceOf(l, holders \ {x})

\* The buyer, the seller, the escrow and the team of the current listing.
EscrowParties ==
    {Unwrap(Listing.purchase).buyer, Listing.authorized_withdrawer, ESCROW_ACCOUNT,
     TEAM_ADDRESS}

\* C36: with nothing deposited from outside and an escrow that starts empty:
\* while the listing has a purchase, no mediation and an unvalidated item, the
\* escrow holds 2 * sum(item costs) + floor(price * 2000 / 10000); while the
\* listing is unsold, once every item is validated, and once it is mediated,
\* the escrow holds 0; and each accepted Buy, validation and Mediate leaves
\* the total held by buyer, seller, escrow and team as it was.
C36_EscrowBalance ==
    /\ (Sold(storage) /\ IsNone(Listing.mediation_date) /\ ~AllValidated(Listing)) =>
          lamports[ESCROW_ACCOUNT] =
              2 * ItemCostSum(Listing) + (Listing.authorized_withdrawer_cost * 2000) \div 10000
    /\ (IsSome(storage)
          /\ (~Sold(storage) \/ AllValidated(Listing) \/ IsSome(Listing.mediation_date))) =>
          lamports[ESCROW_ACCOUNT] = 0
    /\ last.op \in {"Buy", "Validate", "Mediate"} =>
          BalanceOf(lamports, EscrowParties) = BalanceOf(pre.lamports, EscrowParties)

\* The first of the two items of the listing of price 5 has just been
\* validated: nothing is released, the escrow still holds 2 * 13 + 1.
C36_Witness ==
    /\ last.op = "Validate"
    /\ Sold(storage)
    /\ IsNone(Listing.mediation_date)
    /\ ~AllValidated(Listing)
    /\ \E i \in 1..Len(Listing.secondary_items) :
          IsSome(Listing.secondary_items[i].date_validated)
    /\ ItemCostSum(Listing) = 13
    /\ lamports[ESCROW_ACCOUNT] = 27

\* C37: the terms of a sale stay as listed: an accepted Buy, RequestMediation,
\* Mediate, validation or WithdrawRewards leaves the record in place with the
\* same seller, vote account, price, mediatable date, number of items and
\* cost of each item, and, when the listing had a purchase, the same buyer
\* and purchase date.
C37_SaleTermsImmutable ==
    (last.op \in {"Buy", "RequestMediation", "Mediate", "Validate", "WithdrawRewards"}) =>
        /\ IsSome(pre.storage) /\ IsSome(storage)
        /\ Listing.authorized_withdrawer = PreListing.authorized_withdrawer
        /\ Listing.vote_account = PreListing.vote_account
        /\ Listing.authorized_withdrawer_cost = PreListing.authorized_withdrawer_cost
        /\ Listing.mediatable_date = PreListing.mediatable_date
        /\ Len(Listing.secondary_items) = Len(PreListing.secondary_items)
        /\ \A i \in 1..Len(PreListing.secondary_items) :
              Listing.secondary_items[i].cost = PreListing.secondary_items[i].cost
        /\ Sold(pre.storage) =>
              /\ Sold(storage)
              /\ Unwrap(Listing.purchase).buyer = Unwrap(PreListing.purchase).buyer
              /\ Unwrap(Listing.purchase).date = Unwrap(PreListing.purchase).date

\* A purchase made at time 0 has just been mediated at a later time: buyer
\* and purchase date are those of the Buy, the items keep their costs.
C37_Witness ==
    /\ last.op = "Mediate"
    /\ Sold(storage)
    /\ now > Unwrap(Listing.purchase).date
    /\ Unwrap(Listing.purchase) = Unwrap(PreListing.purchase)
    /\ Listing.secondary_items # << >>
    /\ Listing.mediation_date = Some(now)

\* C38: from an accepted List to the accepted Delist, that is, in every state
\* in which the record exists, the program's upgrade authority is the upgrade
\* pda; no accepted Buy, RequestMediation, Mediate, validation or
\* WithdrawRewards changes it.
C38_UpgradeAuthorityHeld ==
    /\ IsSome(storage) => upgrade_authority = PDA_UPGRADE_AUTHORITY
    /\ last.op = "List" => upgrade_authority = PDA_UPGRADE_AUTHORITY
    /\ (last.op \in {"Buy", "RequestMediation", "Mediate", "Validate", "WithdrawRewards"}) =>
          /\ upgrade_authority = pre.upgrade_authority
          /\ upgrade_authority = PDA_UPGRADE_AUTHORITY

\* A sold listing has just been mediated, and the upgrade authority is still
\* the pda that List gave it to.
C38_Witness ==
    /\ last.op = "Mediate"
    /\ Sold(storage)
    /\ IsSome(Listing.mediation_date)
    /\ pre.upgrade_authority = PDA_UPGRADE_AUTHORITY
    /\ upgrade_authority = PDA_UPGRADE_AUTHORITY

\* The listing is mediated with an item still unvalidated and a positive sum
\* of item costs.
MediatedUnsettled ==
    /\ Sold(storage)
    /\ IsSome(Listing.mediation_date)
    /\ ~AllValidated(Listing)
    /\ ItemCostSum(Listing) > 0

\* No validation that could be sent now leaves every item validated, and
\* every Delist that could be sent now is rejected and changes nothing.
NoSettlingInstruction ==
    /\ \A buyer \in Identities, signed \in BOOLEAN, aw \in SellerKeys,
          item_index \in ItemIndexes, overflow_checks \in BOOLEAN :
           LET r == ValidateSecondaryItemsTransfers(Cur, now, overflow_checks, buyer, signed,
                                                    aw, item_index)
           IN  r.err = "Ok" => ~AllValidated(Unwrap(r.st.storage))
    /\ \A seller \in Identities, current_upgrade_authority \in Identities,
          signed \in BOOLEAN, vote \in VoteAccounts :
           LET r == DelistValidator(Cur, seller, current_upgrade_authority, signed, vote)
           IN  r.err # "Ok" /\ r.st = Cur

\* C39: once a Mediate has been accepted on a purchase with an unvalidated
\* item and a positive sum of item costs, then, with no deposit into the
\* escrow from outside, at every later time: the escrow is empty, the listing
\* is still mediated with an unvalidated item, no validation validates the
\* last unvalidated item, every Delist is rejected, and the record exists.
C39_MediatedNeverSettles ==
    /\ [](MediatedUnsettled =>
             /\ lamports[ESCROW_ACCOUNT] = 0
             /\ NoSettlingInstruction)
    /\ [][MediatedUnsettled => MediatedUnsettled']_vars

\* After the mediation of the two-item listing the buyer has validated one
\* item; validating the other one fails because the empty escrow cannot pay
\* the item costs back.
C39_Witness ==
    /\ last.op = "Validate"
    /\ MediatedUnsettled
    /\ IsSome(PreListing.mediation_date)
    /\ \E i \in 1..Len(Listing.secondary_items) :
          /\ IsNone(Listing.secondary_items[i].date_validated)
          /\ \A j \in 1..Len(Listing.secondary_items) :
                j # i => IsSome(Listing.secondary_items[j].date_validated)
          /\ (\A overflow_checks \in BOOLEAN :
             ValidateSecondaryItemsTransfers(Cur, now, overflow_checks,
                 Unwrap(Listing.purchase).buyer, TRUE, Listing.authorized_withdrawer, i - 1).err = "InsufficientFunds")

\* C40: while the listing has a purchase, and the buyer has not given the
\* recorded vote account away outside the program, the withdraw authority of
\* that vote account is neither the withdrawer pda nor (for a buyer other
\* than the seller) the seller, every WithdrawRewards on it is rejected, and
\* no accepted Delist or WithdrawRewards on a purchased listing changes its
\* withdraw authority or its balance.
C40_SoldVoteAccountOutOfReach ==
    /\ Sold(storage) =>
          /\ vote_withdrawer[Listing.vote_account] # PDA_AUTHORIZED_WITHDRAWER
          /\ Unwrap(Listing.purchase).buyer # Listing.authorized_withdrawer =>
                vote_withdrawer[Listing.vote_account] # Listing.authorized_withdrawer
          /\ \A aw \in Identities :
                WithdrawRewards(Cur, aw, Listing.vote_account).err # "Ok"
    /\ (last.op \in {"Delist", "WithdrawRewards"} /\ Sold(pre.storage)) =>
          /\ vote_withdrawer[PreListing.vote_account]
                = pre.vote_withdrawer[PreListing.vote_account]
          /\ vote_lamports[PreListing.vote_account]
                = pre.vote_lamports[PreListing.vote_account]

====
